---- MODULE Spec2Model ----
(***************************************************************************)
(* AI-assisted content subsystem of the portfolio backend:                 *)
(*   - WritingService.stream + stream_response (SSE framing, /ai/write)    *)
(*   - RagService: embed, search, index_text, re_embed_all,                *)
(*     get_embed_status over the projects / posts / certifications tables  *)
(* Text is modelled as TLA+ strings; a vector as [dim, dir] (its length    *)
(* and an abstract direction, dir = 0 being the all-zero vector).          *)
(***************************************************************************)
EXTENDS Integers, Sequences, FiniteSets, TLC

VARIABLES
    \* ---- /ai/write request (routes/ai.py, writing_service.py) ----
    wrPc,        \* position of the request: idle, rejected, create, streaming, completed, failed, crashed, closed
    wrStatus,    \* HTTP status of the response (0: no response yet)
    wrReq,       \* the WriteRequest being served
    wrMessages,  \* message sequence passed to chat.completions.create
    wrDelivered, \* chunks the provider stream has produced so far
    wrFrames,    \* frames yielded by stream_response to the transport
    wrRaised,    \* TRUE when an exception left stream_response
    wrGenCalls,  \* number of chat.completions.create calls of this request
    wrFailure,   \* exception the provider raised for this request: none, OpenAIError, Exception
    \* ---- content store (projects, posts, certifications tables) ----
    store,       \* id -> [exists, embedding]; embedding is <<>> (NULL) or <<vector>>
    \* ---- the RagService call in progress ----
    embedCalls,  \* embeddings.create calls issued by the call in progress
    dbCalls,     \* store statements issued by the call in progress
    fault,       \* failure injected by the environment into the call: none, embed, db
    \* RagService.search
    srPc,        \* idle, embed, query, returned, raised (AIServiceError), crashed (any other exception)
    srQuery,
    srLimit,
    srVec,       \* <<>> until the query embedding is known
    srResult,
    \* RagService.index_text
    ixPc,        \* idle, embed, write, returned, raised_value, raised_ai, crashed (any other exception)
    ixCaller,    \* direct, or re_embed_all
    ixTable,
    ixRowId,
    ixContent,
    ixVec,       \* <<>> until the embedding is known
    ixExisted,   \* the target row existed when index_text was called
    ixRowcount,  \* rows matched by the UPDATE (-1: not executed)
    \* RagService.re_embed_all
    rePc,        \* idle, list, item, done, raised
    reTable,     \* index in Tables of the table being processed
    reRows,      \* rows returned by the SELECT of that table
    reIdx,       \* position in reRows of the row being indexed
    indexed,
    errors,
    reListed,    \* every row id any SELECT of this run returned, in order
    reLog,       \* finished index_text calls of this run: [id, outcome]
    reFixed,     \* no row was created or deleted since the run started
    \* RagService.get_embed_status
    status,      \* the EmbedStatus just returned (taken = FALSE: none)
    \* ---- a client repeating a search ----
    srPrev,      \* the last search answered from the present store contents
    \* ---- GET /ai/embed-status, POST /ai/re-embed (routes/ai.py, core/deps.py) ----
    adminReply,  \* the admin request just answered: endpoint, credentials, status code
    \* ---- projects CMS (routes/projects.py, project_service.py, project_repository.py) ----
    prTable,     \* rows of the projects table: [id, slug, title]
    prNextId,    \* ids handed out so far + 1
    crPc,        \* per client, its POST /projects/ request: idle, checked, done
    crData,      \* per client, the validated ProjectCreate of that request
    crReply,     \* per client, the status code of the response (0: none yet)
    \* ---- /ai/write requests served at the same time (routes/ai.py:20) ----
    cwShared,    \* messages held by the shared WritingService / provider client
    cwPc,        \* per request: idle, rejected, create, streaming, completed, failed, crashed, closed
    cwReq,       \* per request, its WriteRequest
    cwMessages,  \* per request, the messages passed to chat.completions.create
    cwDelivered, \* per request, the chunks its provider stream has produced
    cwFrames,    \* per request, the frames its stream_response has yielded
    \* ---- an operator running re_embed_all again and again ----
    rePast,      \* runs of re_embed_all so far: completed ones, and whether one crashed
    \* ---- RequestIDMiddleware (core/middleware.py) ----
    rootFilters, \* filters installed on the root logger, in the order they were added
    rqPc,        \* per request: idle, running (inside call_next), done, raised
    rqHeader,    \* per request, the X-Request-ID header it came with ("": none)
    rqId,        \* per request, the request_id of dispatch
    rqEcho,      \* per request, the X-Request-ID header of its response ("": none)
    lastRecord   \* the log record just emitted, as the handlers receive it

wrVars == <<wrPc, wrStatus, wrReq, wrMessages, wrDelivered, wrFrames, wrRaised, wrGenCalls, wrFailure>>
callVars == <<embedCalls, dbCalls, fault>>
srVars == <<srPc, srQuery, srLimit, srVec, srResult>>
ixVars == <<ixPc, ixCaller, ixTable, ixRowId, ixContent, ixVec, ixExisted, ixRowcount>>
reVars == <<rePc, reTable, reRows, reIdx, indexed, errors, reListed, reLog, reFixed>>
ragVars == <<store, callVars, srVars, ixVars, reVars, status>>
repVars == <<srPrev>>
admVars == <<adminReply>>
prVars == <<prTable, prNextId, crPc, crData, crReply>>
cwVars == <<cwShared, cwPc, cwReq, cwMessages, cwDelivered, cwFrames>>
histVars == <<rePast>>
ridVars == <<rootFilters, rqPc, rqHeader, rqId, rqEcho, lastRecord>>
vars == <<wrVars, ragVars, repVars, admVars, prVars, cwVars, histVars, ridVars>>

\* no RagService call is in progress
RagIdle == srPc = "idle" /\ ixPc = "idle" /\ rePc = "idle"

----------------------------------------------------------------------------
(* Bounds *)

MaxChunks == 3

----------------------------------------------------------------------------
(* Text helpers *)

IsSpace(c) == c \in {" ", "\n", "\t"}

RECURSIVE LStrip(_)
LStrip(s) ==
    IF Len(s) = 0 THEN s
    ELSE IF IsSpace(SubSeq(s, 1, 1)) THEN LStrip(SubSeq(s, 2, Len(s)))
    ELSE s

RECURSIVE RStrip(_)
RStrip(s) ==
    IF Len(s) = 0 THEN s
    ELSE IF IsSpace(SubSeq(s, Len(s), Len(s))) THEN RStrip(SubSeq(s, 1, Len(s) - 1))
    ELSE s

\* str.strip()
Strip(s) == RStrip(LStrip(s))

----------------------------------------------------------------------------
(* WritingService / stream_response *)

WRITE_SYSTEM_PROMPT ==
    "You are a writing assistant for a developer portfolio.\nWrite clear, professional, and engaging content with concrete details."
IMPROVE_SYSTEM_PROMPT ==
    "You are a technical editor for developer portfolio content.\nImprove clarity, conciseness, and professionalism while preserving voice."
SUMMARISE_SYSTEM_PROMPT ==
    "Summarise the provided text into 2-3 clear, specific sentences.\nReturn only the summary."

WriteMode == {"write", "improve", "summarise"}

PROMPT_MAP(mode) ==
    CASE mode = "write" -> WRITE_SYSTEM_PROMPT
      [] mode = "improve" -> IMPROVE_SYSTEM_PROMPT
      [] mode = "summarise" -> SUMMARISE_SYSTEM_PROMPT

\* WriteRequest: context is Optional; hasContext = FALSE stands for None.
Prompts == {"", " \n", "Draft"}
Contexts == {"", "notes"}
WriteRequest ==
    [mode : WriteMode, prompt : Prompts, hasContext : {TRUE}, context : Contexts]
    \cup [mode : WriteMode, prompt : Prompts, hasContext : {FALSE}, context : {""}]

NoRequest == [mode |-> "write", prompt |-> "", hasContext |-> FALSE, context |-> ""]

\* variant: `if request.context is not None`
BuildMessages_NotNone(req) ==
    << [role |-> "system", content |-> PROMPT_MAP(req.mode)],
       IF req.hasContext
       THEN [role |-> "user",
             content |-> "Context:\n" \o req.context \o "\n\nRequest:\n" \o req.prompt]
       ELSE [role |-> "user", content |-> req.prompt] >>

\* messages built by WritingService.stream before the provider call
BuildMessages(req) ==
    << [role |-> "system", content |-> PROMPT_MAP(req.mode)],
       IF req.hasContext /\ req.context # ""
       THEN [role |-> "user",
             content |-> "Context:\n" \o req.context \o "\n\nRequest:\n" \o req.prompt]
       ELSE [role |-> "user", content |-> req.prompt] >>

\* A provider stream chunk: choices may be empty; delta.content may be None.
Deltas == {"", "Hi", "[DONE]"}
ProviderChunks ==
    [choices : {0}, hasContent : {FALSE}, content : {""}]
    \cup [choices : {1}, hasContent : {FALSE}, content : {""}]
    \cup [choices : {1}, hasContent : {TRUE}, content : Deltas]

\* variant: every chunk that has a choice is relayed, its delta empty or not
YieldsDelta_NoFilter(chunk) == chunk.choices > 0 /\ chunk.hasContent

\* the `if not chunk.choices: continue` / `if delta:` filter of WritingService.stream
YieldsDelta(chunk) == chunk.choices > 0 /\ chunk.hasContent /\ chunk.content # ""

\* frames of stream_response
DataFrame(chunk) == "data: " \o chunk \o "\n\n"
ErrorFrame(message) == "event: error\ndata: " \o message \o "\n\n"
DoneFrame == "data: [DONE]\n\n"

\* exceptions a provider call or stream iteration can raise
ProviderErrors == {"OpenAIError", "Exception"}
OpenAIErrorText == "Connection error."
AIServiceErrorMessage == "AI stream failed: " \o OpenAIErrorText

\* variant: the handler of stream_response yields the error frame only
StreamRaise_NoSentinel(kind) ==
    /\ wrFailure' = kind
    /\ IF kind = "OpenAIError"
       THEN /\ wrFrames' = wrFrames \o <<ErrorFrame(AIServiceErrorMessage)>>
            /\ wrPc' = "failed"
            /\ wrRaised' = FALSE
       ELSE /\ wrFrames' = wrFrames
            /\ wrPc' = "crashed"
            /\ wrRaised' = TRUE

\* An exception raised inside WritingService.stream: OpenAIError is wrapped
\* in AIServiceError, which stream_response turns into an error frame and the
\* sentinel; anything else passes both handlers and leaves the generator.
StreamRaise(kind) ==
    /\ wrFailure' = kind
    /\ IF kind = "OpenAIError"
          THEN /\ wrFrames' = wrFrames \o <<ErrorFrame(AIServiceErrorMessage), DoneFrame>>
            /\ wrPc' = "failed"
            /\ wrRaised' = FALSE
       ELSE /\ wrFrames' = wrFrames
            /\ wrPc' = "crashed"
            /\ wrRaised' = TRUE

\* variant: the handler without its check of the prompt
ai_write_NoBlankCheck(req) ==
    /\ wrPc = "idle"
    /\ wrReq' = req
    /\ wrDelivered' = <<>>
    /\ wrFrames' = <<>>
    /\ wrRaised' = FALSE
    /\ wrFailure' = "none"
    /\ wrPc' = "create"
    /\ wrStatus' = 200
    /\ wrMessages' = BuildMessages(req)
    /\ wrGenCalls' = 1

\* POST /ai/write: 422 on blank prompt, otherwise the stream is started and
\* WritingService.stream issues the generation call.
ai_write(req) ==
    /\ wrPc = "idle"
    /\ wrReq' = req
    /\ wrDelivered' = <<>>
    /\ wrFrames' = <<>>
    /\ wrRaised' = FALSE
    /\ wrFailure' = "none"
    /\ IF Strip(req.prompt) = ""
       THEN /\ wrPc' = "rejected"
            /\ wrStatus' = 422
            /\ wrMessages' = <<>>
            /\ wrGenCalls' = 0
       ELSE /\ wrPc' = "create"
            /\ wrStatus' = 200
            /\ wrMessages' = BuildMessages(req)
            /\ wrGenCalls' = 1

\* chat.completions.create returns the stream
CreateOk ==
    /\ wrPc = "create"
    /\ wrPc' = "streaming"
    /\ UNCHANGED <<wrStatus, wrReq, wrMessages, wrDelivered, wrFrames, wrRaised, wrGenCalls, wrFailure>>

\* chat.completions.create raises
CreateFail(kind) ==
    /\ wrPc = "create"
    /\ StreamRaise(kind)
    /\ UNCHANGED <<wrStatus, wrReq, wrMessages, wrDelivered, wrGenCalls>>

\* variant: the provider stream is consumed by a task that outlives the
\* response generator
StreamChunk_Background(chunk) ==
    /\ wrPc \in {"streaming", "closed"}
    /\ Len(wrDelivered) < MaxChunks
    /\ wrDelivered' = Append(wrDelivered, chunk)
    /\ wrFrames' = IF YieldsDelta(chunk) /\ wrPc = "streaming"
                   THEN Append(wrFrames, DataFrame(chunk.content))
                   ELSE wrFrames
    /\ UNCHANGED <<wrPc, wrStatus, wrReq, wrMessages, wrRaised, wrGenCalls, wrFailure>>

\* one iteration of `async for chunk in stream`
StreamChunk(chunk) ==
    /\ wrPc = "streaming"
    /\ Len(wrDelivered) < MaxChunks
    /\ wrDelivered' = Append(wrDelivered, chunk)
    /\ wrFrames' = IF YieldsDelta(chunk)
                   THEN Append(wrFrames, DataFrame(chunk.content))
                   ELSE wrFrames
    /\ UNCHANGED <<wrPc, wrStatus, wrReq, wrMessages, wrRaised, wrGenCalls, wrFailure>>

\* the provider stream is exhausted
StreamEnd ==
    /\ wrPc = "streaming"
    /\ wrFrames' = Append(wrFrames, DoneFrame)
    /\ wrPc' = "completed"
    /\ UNCHANGED <<wrStatus, wrReq, wrMessages, wrDelivered, wrRaised, wrGenCalls, wrFailure>>

\* iterating the provider stream raises
StreamFail(kind) ==
    /\ wrPc = "streaming"
    /\ StreamRaise(kind)
    /\ UNCHANGED <<wrStatus, wrReq, wrMessages, wrDelivered, wrGenCalls>>

\* The client disconnects while the response is being produced: the task
\* iterating stream_response is cancelled at its await (the create call or
\* the next chunk); neither `except` clause catches the cancellation, so both
\* generators are closed and the provider stream is not iterated again.
ClientDisconnect ==
    /\ wrPc \in {"create", "streaming"}
    /\ wrPc' = "closed"
    /\ UNCHANGED <<wrStatus, wrReq, wrMessages, wrDelivered, wrFrames, wrRaised, wrGenCalls,
                   wrFailure>>

\* the response is over; the next request may start
WriteFinish ==
    /\ wrPc \in {"rejected", "completed", "failed", "crashed", "closed"}
    /\ wrPc' = "idle"
    /\ wrStatus' = 0
    /\ wrReq' = NoRequest
    /\ wrMessages' = <<>>
    /\ wrDelivered' = <<>>
    /\ wrFrames' = <<>>
    /\ wrRaised' = FALSE
    /\ wrGenCalls' = 0
    /\ wrFailure' = "none"

WriteInit ==
    /\ wrPc = "idle"
    /\ wrStatus = 0
    /\ wrReq = NoRequest
    /\ wrMessages = <<>>
    /\ wrDelivered = <<>>
    /\ wrFrames = <<>>
    /\ wrRaised = FALSE
    /\ wrGenCalls = 0
    /\ wrFailure = "none"

----------------------------------------------------------------------------
(* Content store *)

EMBEDDING_DIMENSIONS == 1536

\* content_embedding vector(1536) of the three tables
ColumnDimensions == 1536

RAG_TOP_K == 5

MaxItems == 3

Ids == 1 .. MaxItems

\* variant: the posts loop comes first
Tables_PostsFirst == <<"posts", "projects", "certifications">>

Tables == <<"projects", "posts", "certifications">>

allowed_tables == {"projects", "posts", "certifications"}

\* ids are UUIDs, unique across tables: every id belongs to one table
\* (1, 2: projects; 3: posts; 4: certifications; 5: projects; ...)
TableOf(id) ==
    IF id % 4 = 0 THEN "certifications" ELSE IF id % 4 = 3 THEN "posts" ELSE "projects"

TypeOf(table) ==
    CASE table = "projects" -> "project"
      [] table = "posts" -> "post"
      [] table = "certifications" -> "certification"

NULL == <<>>

AbsentRow == [exists |-> FALSE, embedding |-> NULL]
NewRow == [exists |-> TRUE, embedding |-> NULL]

IdsOf(st, table) == {id \in Ids : st[id].exists /\ TableOf(id) = table}

\* the text columns of a row (title/description/content, title/excerpt/body,
\* name/issuer/description); has = FALSE stands for a NULL column
Col(text) == [has |-> TRUE, text |-> text]
NullCol == [has |-> FALSE, text |-> ""]

RowColumns(id) ==
    CASE id % 4 = 1 -> <<Col("a"), Col("b"), NullCol>>
      [] id % 4 = 2 -> <<Col("c"), Col(""), Col("a")>>
      [] id % 4 = 3 -> <<Col(" "), Col(""), NullCol>>
      [] OTHER -> <<Col("b"), Col("c"), NullCol>>

\* " ".join(filter(None, columns))
RECURSIVE JoinColumns(_)
JoinColumns(cols) ==
    IF Len(cols) = 0 THEN ""
    ELSE LET c == Head(cols)
             rest == JoinColumns(Tail(cols))
         IN IF ~c.has \/ c.text = "" THEN rest
            ELSE IF rest = "" THEN c.text
            ELSE c.text \o " " \o rest

\* CMS layer: repository create / delete (commit included)
CreateItem(id) ==
    /\ ~store[id].exists
    /\ store' = [store EXCEPT ![id] = NewRow]
    /\ reFixed' = (rePc = "idle")
    /\ UNCHANGED <<callVars, srVars, ixVars, rePc, reTable, reRows, reIdx, indexed, errors,
                   reListed, reLog>>

DeleteItem(id) ==
    /\ store[id].exists
    /\ store' = [store EXCEPT ![id] = AbsentRow]
    /\ reFixed' = (rePc = "idle")
    /\ UNCHANGED <<callVars, srVars, ixVars, rePc, reTable, reRows, reIdx, indexed, errors,
                   reListed, reLog>>

----------------------------------------------------------------------------
(* Embedding provider and RagService.embed *)

Vector(dim, dir) == [dim |-> dim, dir |-> dir]

\* [0.0] * EMBEDDING_DIMENSIONS
ZeroVector == Vector(EMBEDDING_DIMENSIONS, 0)

CharWeight(c) ==
    CASE c = "a" -> 1
      [] c = "b" -> 2
      [] c = "c" -> 4
      [] OTHER -> 0

RECURSIVE TextWeight(_)
TextWeight(s) ==
    IF Len(s) = 0 THEN 0
    ELSE CharWeight(SubSeq(s, 1, 1)) + TextWeight(SubSeq(s, 2, Len(s)))

\* the provider is deterministic in its input: the direction it returns
ProviderDir(input) == TextWeight(input) + 1

\* lengths of the vector a response may carry (the model's, or a malformed one)
ProviderDims == {EMBEDDING_DIMENSIONS, 700}

\* ways the embedding call can fail
EmbedFailures == {"transport", "status", "malformed"}

\* what the try block of embed raises for a failure: the client raises
\* APIConnectionError / APIStatusError (both OpenAIError); a body without
\* data[0].embedding makes the attribute access raise something else
ProviderException(failure) == IF failure = "malformed" THEN "Exception" ELSE "OpenAIError"

\* variant: embed without its `except Exception` clause
EmbedRaises_OpenAIOnly(exc) == IF exc = "OpenAIError" THEN "AIServiceError" ELSE exc

\* the two except clauses of embed: the exception that leaves embed
EmbedRaises(exc) ==
    CASE exc = "OpenAIError" -> "AIServiceError"
      [] OTHER -> "AIServiceError"

\* replies of POST /v1/embeddings for `input`: a vector, or a failure
\* (transport error, error status, malformed body)
EmbedReplies(input) ==
    {[ok |-> TRUE, vec |-> Vector(d, ProviderDir(input)), failure |-> "none"] : d \in ProviderDims}
    \cup {[ok |-> FALSE, vec |-> ZeroVector, failure |-> f] : f \in EmbedFailures}

\* variant: only the empty string is answered without a network call
EmbedIsLocal_EmptyOnly(text) == text = ""

\* RagService.embed short-circuits on blank text without a network call
EmbedIsLocal(text) == Strip(text) = ""

\* pgvector <=> as an abstract distance between directions
Distance(q, e) == IF q.dir >= e.dir THEN q.dir - e.dir ELSE e.dir - q.dir

----------------------------------------------------------------------------
(* RagService.search *)

MaxLimit == 2

Queries == {"", " ", "b", "c"}

\* values of `limit`: small ones and the default
Limits == (0 .. MaxLimit) \cup {RAG_TOP_K}

HasEmbedding(row) == row.exists /\ row.embedding # NULL

\* one SELECT ... FROM <table> WHERE content_embedding IS NOT NULL
SelectEmbedded(st, table, q) ==
    {[id |-> id, type |-> TypeOf(table), distance |-> Distance(q, st[id].embedding[1])] :
        id \in {i \in IdsOf(st, table) : HasEmbedding(st[i])}}

\* variant: the posts SELECT is missing from the union
UnionAll_TwoTables(st, q) ==
    SelectEmbedded(st, "projects", q) \cup SelectEmbedded(st, "certifications", q)

\* UNION ALL of the three SELECTs
UnionAll(st, q) ==
    SelectEmbedded(st, "projects", q) \cup SelectEmbedded(st, "posts", q)
        \cup SelectEmbedded(st, "certifications", q)

Orderings(S) ==
    {p \in [1 .. Cardinality(S) -> S] : \A i, j \in 1 .. Cardinality(S) : i # j => p[i] # p[j]}

Min(a, b) == IF a <= b THEN a ELSE b

\* variant: ORDER BY without the LIMIT
OrderByLimit_NoLimit(rows, limit) ==
    {p \in Orderings(rows) :
        \A i \in 1 .. Cardinality(rows) - 1 : p[i].distance <= p[i + 1].distance}

\* ORDER BY distance ASC LIMIT :limit; rows at equal distance come in any order
OrderByLimit(rows, limit) ==
    {SubSeq(p, 1, Min(limit, Len(p))) :
        p \in {o \in Orderings(rows) :
                  \A i \in 1 .. Cardinality(rows) - 1 : o[i].distance <= o[i + 1].distance}}

\* <=> on vectors of different lengths is an error of the statement
QueryRejected(st, q) ==
    \E id \in Ids : HasEmbedding(st[id]) /\ st[id].embedding[1].dim # q.dim

\* search(db, query, limit): embed the query; a blank query needs no call
search(query, limit) ==
    /\ RagIdle
    /\ srQuery' = query
    /\ srLimit' = limit
    /\ srResult' = <<>>
    /\ fault' = "none"
    /\ IF EmbedIsLocal(query)
       THEN /\ srVec' = <<ZeroVector>>
            /\ embedCalls' = 0
            /\ dbCalls' = 1
            /\ srPc' = "query"
       ELSE /\ srVec' = <<>>
            /\ embedCalls' = 1
            /\ dbCalls' = 0
            /\ srPc' = "embed"
    /\ UNCHANGED <<store, ixVars, reVars>>

\* variant: a failed embedding call makes search return []
SearchEmbedReply_Degrades(reply) ==
    /\ srPc = "embed"
    /\ IF reply.ok
       THEN /\ srVec' = <<reply.vec>>
            /\ srPc' = "query"
            /\ dbCalls' = dbCalls + 1
            /\ fault' = fault
       ELSE /\ srVec' = srVec
            /\ srPc' = "returned"
            /\ dbCalls' = dbCalls
            /\ fault' = "embed"
    /\ UNCHANGED <<store, srQuery, srLimit, srResult, embedCalls, ixVars, reVars>>

\* the embedding call of search returns or fails
SearchEmbedReply(reply) ==
    /\ srPc = "embed"
    /\ IF reply.ok
       THEN /\ srVec' = <<reply.vec>>
            /\ srPc' = "query"
            /\ dbCalls' = dbCalls + 1
            /\ fault' = fault
       ELSE /\ srVec' = srVec
            /\ srPc' = IF EmbedRaises(ProviderException(reply.failure)) = "AIServiceError"
                       THEN "raised" ELSE "crashed"
            /\ dbCalls' = dbCalls
            /\ fault' = "embed"
    /\ UNCHANGED <<store, srQuery, srLimit, srResult, embedCalls, ixVars, reVars>>

\* variant: a failed UNION query is not caught
SearchQuery_Raises(dbOk) ==
    /\ srPc = "query"
    /\ IF dbOk /\ ~QueryRejected(store, srVec[1])
       THEN /\ srPc' = "returned"
            /\ srResult' \in OrderByLimit(UnionAll(store, srVec[1]), srLimit)
       ELSE /\ srPc' = "raised"
            /\ srResult' = <<>>
    /\ fault' = IF dbOk THEN fault ELSE "db"
    /\ UNCHANGED <<store, srQuery, srLimit, srVec, embedCalls, dbCalls, ixVars, reVars>>

\* the UNION query returns its rows, or fails and search returns []
SearchQuery(dbOk) ==
    /\ srPc = "query"
    /\ srPc' = "returned"
    /\ IF dbOk /\ ~QueryRejected(store, srVec[1])
       THEN srResult' \in OrderByLimit(UnionAll(store, srVec[1]), srLimit)
       ELSE srResult' = <<>>
    /\ fault' = IF dbOk THEN fault ELSE "db"
    /\ UNCHANGED <<store, srQuery, srLimit, srVec, embedCalls, dbCalls, ixVars, reVars>>

SearchFinish ==
    /\ srPc \in {"returned", "raised"}
    /\ srPc' = "idle"
    /\ srQuery' = ""
    /\ srLimit' = 0
    /\ srVec' = <<>>
    /\ srResult' = <<>>
    /\ embedCalls' = 0
    /\ dbCalls' = 0
    /\ fault' = "none"
    /\ UNCHANGED <<store, ixVars, reVars>>

SearchInit ==
    /\ srPc = "idle"
    /\ srQuery = ""
    /\ srLimit = 0
    /\ srVec = <<>>
    /\ srResult = <<>>

----------------------------------------------------------------------------
(* RagService.index_text *)

\* content a caller of index_text passes for a row: its text columns combined
IndexContents(id) == {JoinColumns(RowColumns(id))}

\* tables a caller may name: the three content tables and one that is not
TableNames == allowed_tables \cup {"users"}

\* variant: the UPDATE has no WHERE clause
UpdateEmbedding_NoWhere(st, table, id, vec) ==
    [i \in Ids |-> IF st[i].exists /\ TableOf(i) = table
                   THEN [exists |-> TRUE, embedding |-> <<vec>>]
                   ELSE st[i]]

\* variant: the new vector is added to the stored one
UpdateEmbedding_Accumulates(st, table, id, vec) ==
    IF id \in Ids /\ st[id].exists /\ TableOf(id) = table
    THEN [st EXCEPT ![id] =
             [exists |-> TRUE,
              embedding |-> IF st[id].embedding = NULL THEN <<vec>>
                            ELSE <<Vector(vec.dim, st[id].embedding[1].dir + vec.dir)>>]]
    ELSE st

\* variant: the write inserts the row when no row matches
UpdateEmbedding_Upsert(st, table, id, vec) ==
    IF id \in Ids /\ (~st[id].exists \/ TableOf(id) = table)
    THEN [st EXCEPT ![id] = [exists |-> TRUE, embedding |-> <<vec>>]]
    ELSE st

\* UPDATE <table> SET content_embedding = <vector> WHERE id = :row_id
UpdateEmbedding(st, table, id, vec) ==
    IF id \in Ids /\ st[id].exists /\ TableOf(id) = table
    THEN [st EXCEPT ![id] = [exists |-> TRUE, embedding |-> <<vec>>]]
    ELSE st

\* rows the UPDATE matches
Rowcount(st, table, id) == IF id \in Ids /\ st[id].exists /\ TableOf(id) = table THEN 1 ELSE 0

\* variant: the column is declared without a length and accepts any vector
WriteRejected_AnyLength(vec) == FALSE

\* a vector(1536) column accepts only vectors of that length
WriteRejected(vec) == vec.dim # ColumnDimensions

IndexIdle ==
    /\ ixPc' = "idle"
    /\ ixCaller' = "direct"
    /\ ixTable' = ""
    /\ ixRowId' = 0
    /\ ixContent' = ""
    /\ ixVec' = <<>>
    /\ ixExisted' = FALSE
    /\ ixRowcount' = -1

\* variant: no allow-list check
IndexCall_NoAllowList(caller, table, id, content, e, d) ==
    /\ ixCaller' = caller
    /\ ixTable' = table
    /\ ixRowId' = id
    /\ ixContent' = content
    /\ ixExisted' = store[id].exists
    /\ ixRowcount' = -1
    /\ IF EmbedIsLocal(content)
       THEN /\ ixPc' = "write"
            /\ ixVec' = <<ZeroVector>>
            /\ embedCalls' = e
            /\ dbCalls' = d + 1
       ELSE /\ ixPc' = "embed"
            /\ ixVec' = <<>>
            /\ embedCalls' = e + 1
            /\ dbCalls' = d

\* index_text up to its first await, with e and d the calls issued before it:
\* the allow-list check, then embed (a network call unless content is blank)
IndexCall(caller, table, id, content, e, d) ==
    /\ ixCaller' = caller
    /\ ixTable' = table
    /\ ixRowId' = id
    /\ ixContent' = content
    /\ ixExisted' = store[id].exists
    /\ ixRowcount' = -1
    /\ IF table \notin allowed_tables
       THEN /\ ixPc' = "raised_value"
            /\ ixVec' = <<>>
            /\ embedCalls' = e
            /\ dbCalls' = d
       ELSE IF EmbedIsLocal(content)
       THEN /\ ixPc' = "write"
            /\ ixVec' = <<ZeroVector>>
            /\ embedCalls' = e
            /\ dbCalls' = d + 1
       ELSE /\ ixPc' = "embed"
            /\ ixVec' = <<>>
            /\ embedCalls' = e + 1
            /\ dbCalls' = d

\* re_embed_all after the row at position idx - 1: index the next row, or
\* issue the SELECT of the next table, or return
ReAdvance(idx) ==
    /\ reIdx' = idx
    /\ IF idx <= Len(reRows)
       THEN /\ rePc' = "item"
            /\ reTable' = reTable
            /\ IndexCall("re_embed_all", Tables[reTable], reRows[idx],
                         JoinColumns(RowColumns(reRows[idx])), embedCalls, dbCalls)
       ELSE IF reTable < Len(Tables)
       THEN /\ rePc' = "list"
            /\ reTable' = reTable + 1
            /\ IndexIdle
            /\ embedCalls' = embedCalls
            /\ dbCalls' = dbCalls + 1
       ELSE /\ rePc' = "done"
            /\ reTable' = reTable
            /\ IndexIdle
            /\ embedCalls' = embedCalls
            /\ dbCalls' = dbCalls

\* variant: the counters are updated outside the try/except, so a failed
\* row counts as indexed
ReCollect_CountsIndexed(outcome) ==
    /\ reLog' = Append(reLog, [id |-> ixRowId, outcome |-> outcome])
    /\ indexed' = indexed + 1
    /\ errors' = errors
    /\ ReAdvance(reIdx + 1)
    /\ UNCHANGED <<reRows, reListed, reFixed, fault>>

\* variant: no try/except, the first failing row ends the run
ReCollect_Aborts(outcome) ==
    /\ reLog' = Append(reLog, [id |-> ixRowId, outcome |-> outcome])
    /\ IF outcome = "indexed"
       THEN /\ indexed' = indexed + 1
            /\ ReAdvance(reIdx + 1)
       ELSE /\ indexed' = indexed
            /\ rePc' = "raised"
            /\ IndexIdle
            /\ UNCHANGED <<reTable, reIdx, embedCalls, dbCalls>>
    /\ UNCHANGED <<errors, reRows, reListed, reFixed, fault>>

\* the try/except around index_text in re_embed_all
ReCollect(outcome) ==
    /\ reLog' = Append(reLog, [id |-> ixRowId, outcome |-> outcome])
    /\ indexed' = IF outcome = "indexed" THEN indexed + 1 ELSE indexed
    /\ errors' = IF outcome = "indexed" THEN errors ELSE errors + 1
    /\ ReAdvance(reIdx + 1)
    /\ UNCHANGED <<reRows, reListed, reFixed, fault>>

\* a direct call of index_text
index_text(table, id, content) ==
    /\ RagIdle
    /\ fault' = "none"
    /\ IndexCall("direct", table, id, content, 0, 0)
    /\ UNCHANGED <<store, srVars, reVars>>

\* variant: a first failure of the embedding call is answered by issuing the
\* call again
IndexEmbedReply_Retries(reply) ==
    /\ ixPc = "embed"
    /\ IF reply.ok
       THEN /\ ixPc' = "write"
            /\ ixVec' = <<reply.vec>>
            /\ dbCalls' = dbCalls + 1
            /\ UNCHANGED <<ixCaller, ixTable, ixRowId, ixContent, ixExisted, ixRowcount,
                           embedCalls, fault, reVars>>
       ELSE IF fault # "embed"
       THEN /\ embedCalls' = embedCalls + 1
            /\ fault' = "embed"
            /\ UNCHANGED <<ixVars, dbCalls, reVars>>
       ELSE IF ixCaller = "direct"
       THEN /\ ixPc' = "raised_ai"
            /\ UNCHANGED <<ixCaller, ixTable, ixRowId, ixContent, ixVec, ixExisted,
                           ixRowcount, embedCalls, dbCalls, fault, reVars>>
       ELSE ReCollect("embed_failed")
    /\ UNCHANGED <<store, srVars>>

\* the embedding call of index_text returns or fails
IndexEmbedReply(reply) ==
    /\ ixPc = "embed"
    /\ IF reply.ok
       THEN /\ ixPc' = "write"
            /\ ixVec' = <<reply.vec>>
            /\ dbCalls' = dbCalls + 1
            /\ UNCHANGED <<ixCaller, ixTable, ixRowId, ixContent, ixExisted, ixRowcount,
                           embedCalls, fault, reVars>>
       ELSE IF ixCaller = "direct"
       THEN /\ ixPc' = IF EmbedRaises(ProviderException(reply.failure)) = "AIServiceError"
                       THEN "raised_ai" ELSE "crashed"
            /\ fault' = "embed"
            /\ UNCHANGED <<ixCaller, ixTable, ixRowId, ixContent, ixVec, ixExisted,
                           ixRowcount, embedCalls, dbCalls, reVars>>
       ELSE ReCollect("embed_failed")
    /\ UNCHANGED <<store, srVars>>

\* variant: no rollback, the UPDATE of a failed commit stays in the session
\* and reaches the table
IndexWrite_NoRollback(dbOk) ==
    /\ ixPc = "write"
    /\ LET ok == dbOk /\ ~WriteRejected(ixVec[1])
       IN /\ store' = IF ok \/ ~dbOk
                      THEN UpdateEmbedding(store, ixTable, ixRowId, ixVec[1]) ELSE store
          /\ IF ixCaller = "direct"
             THEN /\ ixPc' = IF ok THEN "returned" ELSE "raised_ai"
                  /\ ixRowcount' = IF ok THEN Rowcount(store, ixTable, ixRowId) ELSE -1
                  /\ fault' = IF dbOk THEN fault ELSE "db"
                  /\ UNCHANGED <<ixCaller, ixTable, ixRowId, ixContent, ixVec, ixExisted,
                                 embedCalls, dbCalls, reVars>>
             ELSE ReCollect(IF ok THEN "indexed" ELSE "write_failed")
    /\ UNCHANGED srVars

\* the UPDATE and commit of index_text succeed, or fail and are rolled back
IndexWrite(dbOk) ==
    /\ ixPc = "write"
    /\ LET ok == dbOk /\ ~WriteRejected(ixVec[1])
       IN /\ store' = IF ok THEN UpdateEmbedding(store, ixTable, ixRowId, ixVec[1]) ELSE store
          /\ IF ixCaller = "direct"
             THEN /\ ixPc' = IF ok THEN "returned" ELSE "raised_ai"
                  /\ ixRowcount' = IF ok THEN Rowcount(store, ixTable, ixRowId) ELSE -1
                  /\ fault' = IF dbOk THEN fault ELSE "db"
                  /\ UNCHANGED <<ixCaller, ixTable, ixRowId, ixContent, ixVec, ixExisted,
                                 embedCalls, dbCalls, reVars>>
             ELSE ReCollect(IF ok THEN "indexed" ELSE "write_failed")
    /\ UNCHANGED srVars

IndexFinish ==
    /\ ixPc \in {"returned", "raised_value", "raised_ai"}
    /\ ixCaller = "direct"
    /\ IndexIdle
    /\ embedCalls' = 0
    /\ dbCalls' = 0
    /\ fault' = "none"
    /\ UNCHANGED <<store, srVars, reVars>>

IndexInit ==
    /\ ixPc = "idle"
    /\ ixCaller = "direct"
    /\ ixTable = ""
    /\ ixRowId = 0
    /\ ixContent = ""
    /\ ixVec = <<>>
    /\ ixExisted = FALSE
    /\ ixRowcount = -1

----------------------------------------------------------------------------
(* RagService.re_embed_all *)

\* re_embed_all: the SELECT of the first table is issued
re_embed_all ==
    /\ RagIdle
    /\ rePc' = "list"
    /\ reTable' = 1
    /\ reRows' = <<>>
    /\ reIdx' = 0
    /\ indexed' = 0
    /\ errors' = 0
    /\ reListed' = <<>>
    /\ reLog' = <<>>
    /\ reFixed' = TRUE
    /\ embedCalls' = 0
    /\ dbCalls' = 1
    /\ fault' = "none"
    /\ UNCHANGED <<store, srVars, ixVars>>

\* SELECT ... FROM <table> returns its rows (in any order), or fails and the
\* exception leaves re_embed_all
ReList(dbOk) ==
    /\ rePc = "list"
    /\ IF dbOk
       THEN \E rows \in Orderings(IdsOf(store, Tables[reTable])) :
              /\ reRows' = rows
              /\ reListed' = reListed \o rows
              /\ reIdx' = 1
              /\ IF Len(rows) >= 1
                 THEN /\ rePc' = "item"
                      /\ reTable' = reTable
                      /\ IndexCall("re_embed_all", Tables[reTable], rows[1],
                                   JoinColumns(RowColumns(rows[1])), embedCalls, dbCalls)
                 ELSE IF reTable < Len(Tables)
                 THEN /\ rePc' = "list"
                      /\ reTable' = reTable + 1
                      /\ dbCalls' = dbCalls + 1
                      /\ UNCHANGED <<ixVars, embedCalls>>
                 ELSE /\ rePc' = "done"
                      /\ reTable' = reTable
                      /\ UNCHANGED <<ixVars, embedCalls, dbCalls>>
              /\ UNCHANGED <<indexed, errors, reLog, reFixed, fault>>
       ELSE /\ rePc' = "raised"
            /\ fault' = "db"
            /\ UNCHANGED <<reTable, reRows, reIdx, indexed, errors, reListed, reLog, reFixed,
                           ixVars, embedCalls, dbCalls>>
    /\ UNCHANGED <<store, srVars>>

ReFinish ==
    /\ rePc \in {"done", "raised"}
    /\ rePc' = "idle"
    /\ reTable' = 1
    /\ reRows' = <<>>
    /\ reIdx' = 0
    /\ indexed' = 0
    /\ errors' = 0
    /\ reListed' = <<>>
    /\ reLog' = <<>>
    /\ reFixed' = TRUE
    /\ embedCalls' = 0
    /\ dbCalls' = 0
    /\ fault' = "none"
    /\ UNCHANGED <<store, srVars, ixVars>>

\* The process dies in the middle of a run (between two awaits): the run
\* is gone, a write that was not committed is lost, the rows committed so far
\* keep their new embedding.
ReCrash ==
    /\ rePc \in {"list", "item"}
    /\ rePc' = "idle"
    /\ reTable' = 1
    /\ reRows' = <<>>
    /\ reIdx' = 0
    /\ indexed' = 0
    /\ errors' = 0
    /\ reListed' = <<>>
    /\ reLog' = <<>>
    /\ reFixed' = TRUE
    /\ IndexIdle
    /\ embedCalls' = 0
    /\ dbCalls' = 0
    /\ fault' = "none"
    /\ UNCHANGED <<store, srVars>>

ReInit ==
    /\ rePc = "idle"
    /\ reTable = 1
    /\ reRows = <<>>
    /\ reIdx = 0
    /\ indexed = 0
    /\ errors = 0
    /\ reListed = <<>>
    /\ reLog = <<>>
    /\ reFixed = TRUE

----------------------------------------------------------------------------
(* RagService.get_embed_status *)

VLLM_EMBED_MODEL == "BAAI/bge-base-en-v1.5"

\* variant: the second sub-select counts the embedded rows of every table
EmbedStatusItem_AnyTable(st, table) ==
    [total |-> Cardinality(IdsOf(st, table)),
     indexed |-> Cardinality({id \in Ids : st[id].exists /\ st[id].embedding # NULL})]

\* (SELECT COUNT(*) FROM t), (SELECT COUNT(*) FROM t WHERE content_embedding IS NOT NULL)
EmbedStatusItem(st, table) ==
    [total |-> Cardinality(IdsOf(st, table)),
     indexed |-> Cardinality({id \in IdsOf(st, table) : st[id].embedding # NULL})]

NoStatus ==
    [taken |-> FALSE, model |-> "", dims |-> 0,
     projects |-> [total |-> 0, indexed |-> 0],
     posts |-> [total |-> 0, indexed |-> 0],
     certifications |-> [total |-> 0, indexed |-> 0]]

\* one statement, hence one snapshot of the three tables
EmbedStatus(st) ==
    [taken |-> TRUE, model |-> VLLM_EMBED_MODEL,
     dims |-> EMBEDDING_DIMENSIONS,
     projects |-> EmbedStatusItem(st, "projects"),
     posts |-> EmbedStatusItem(st, "posts"),
     certifications |-> EmbedStatusItem(st, "certifications")]

\* GET /ai/embed-status, served beside whatever else is running; when the
\* statement fails the exception leaves the handler and no status is returned
get_embed_status(dbOk) ==
    /\ status' = IF dbOk THEN EmbedStatus(store) ELSE NoStatus
    /\ UNCHANGED <<store, callVars, srVars, ixVars, reVars>>

----------------------------------------------------------------------------
(* Authentication of the admin endpoints (core/deps.py, core/security.py) *)

StartsWith(str, prefix) ==
    Len(str) >= Len(prefix) /\ SubSeq(str, 1, Len(prefix)) = prefix

\* A token "jwt.<sub>" stands for a JWT with a good signature, not expired,
\* whose sub claim is <sub>; "nosub" for such a JWT without sub claim;
\* "expired" and "garbage" for tokens jwt.decode refuses with JWTError.
decode_access_token(token) ==
    IF StartsWith(token, "jwt.")
    THEN [ok |-> TRUE, sub |-> SubSeq(token, 5, Len(token))]
    ELSE [ok |-> FALSE, sub |-> ""]

\* the users table: u1 is the owner; u9 has a token but no row any more
UserRows ==
    [u \in {"u1", "u2", "u3", "u4"} |->
        [is_active |-> u \in {"u1", "u2"}, is_superuser |-> u \in {"u1", "u3"}]]

NoUser == [is_active |-> FALSE, is_superuser |-> FALSE]

\* sub claims uuid.UUID() accepts ("x" is not one)
IsUuid(sub) == sub \in {"u1", "u2", "u3", "u4", "u9"}

\* what a request carries: the access_token cookie and the Authorization header
Cred(cookie, authorization) == [cookie |-> cookie, authorization |-> authorization]

Credentials ==
    {Cred("", ""), Cred("", "Basic abc"), Cred("", "Bearer "),
     Cred("", "Bearer garbage"), Cred("", "Bearer expired"), Cred("", "Bearer nosub"),
     Cred("", "Bearer jwt.x"), Cred("", "Bearer jwt.u9"),
     Cred("", "Bearer jwt.u1"), Cred("", "Bearer jwt.u2"),
     Cred("", "Bearer jwt.u3"), Cred("", "Bearer jwt.u4"),
     Cred("jwt.u1", ""), Cred("garbage", "Bearer jwt.u1"), Cred("jwt.u2", "Bearer jwt.u1")}

\* _extract_token: cookie first, then the Bearer header, else 401
extract_token(cred) ==
    IF cred.cookie # "" THEN [code |-> 200, token |-> cred.cookie]
    ELSE IF StartsWith(cred.authorization, "Bearer ")
    THEN [code |-> 200,
          token |-> SubSeq(cred.authorization, Len("Bearer ") + 1, Len(cred.authorization))]
    ELSE [code |-> 401, token |-> ""]

\* the request reaches the users table (its token decodes to a UUID)
LooksUpUser(cred) ==
    /\ extract_token(cred).code = 200
    /\ decode_access_token(extract_token(cred).token).ok
    /\ IsUuid(decode_access_token(extract_token(cred).token).sub)

\* get_current_user: 401 for a token that does not decode, for a user that
\* is not found and for any other failure of the lookup; 403 when inactive
get_current_user(cred, lookupOk) ==
    LET extracted == extract_token(cred)
        decoded == decode_access_token(extracted.token)
    IN IF extracted.code # 200 THEN [code |-> 401, user |-> NoUser]
       ELSE IF ~decoded.ok THEN [code |-> 401, user |-> NoUser]
       ELSE IF ~IsUuid(decoded.sub) THEN [code |-> 401, user |-> NoUser]
       ELSE IF ~lookupOk THEN [code |-> 401, user |-> NoUser]
       ELSE IF decoded.sub \notin DOMAIN UserRows THEN [code |-> 401, user |-> NoUser]
       ELSE IF ~UserRows[decoded.sub].is_active THEN [code |-> 403, user |-> NoUser]
       ELSE [code |-> 200, user |-> UserRows[decoded.sub]]

\* variant: the dependency without its is_superuser test
get_current_superuser_AnyUser(cred, lookupOk) == get_current_user(cred, lookupOk).code

\* get_current_superuser: the status the dependency chain ends with
\* (200: the handler is called)
get_current_superuser(cred, lookupOk) ==
    LET current == get_current_user(cred, lookupOk)
    IN IF current.code # 200 THEN current.code
       ELSE IF ~current.user.is_superuser THEN 403
       ELSE 200

\* outcomes of repo.get_by_id for the request: answered (TRUE) or failed
LookupOutcomes(cred) == IF LooksUpUser(cred) THEN BOOLEAN ELSE {TRUE}

NoReply == [endpoint |-> "none", cred |-> Cred("", ""), lookup |-> TRUE, code |-> 0]

AdminReply(endpoint, cred, lookupOk, code) ==
    [endpoint |-> endpoint, cred |-> cred, lookup |-> lookupOk, code |-> code]

\* GET /ai/embed-status: the dependencies are resolved before the handler
\* body; an HTTPException raised by them is the response
ai_embed_status(cred, lookupOk, dbOk) ==
    LET code == get_current_superuser(cred, lookupOk)
    IN /\ adminReply = NoReply
       /\ IF code = 200
          THEN /\ get_embed_status(dbOk)
               /\ adminReply' = AdminReply("embed-status", cred, lookupOk,
                                           IF dbOk THEN 200 ELSE 500)
          ELSE /\ adminReply' = AdminReply("embed-status", cred, lookupOk, code)
               /\ status' = NoStatus
               /\ UNCHANGED <<store, callVars, srVars, ixVars, reVars>>

\* POST /ai/re-embed: as above; the handler body is re_embed_all
ai_re_embed(cred, lookupOk) ==
    LET code == get_current_superuser(cred, lookupOk)
    IN /\ adminReply = NoReply
       /\ adminReply' = AdminReply("re-embed", cred, lookupOk, code)
       /\ status' = NoStatus
       /\ IF code = 200
          THEN re_embed_all
          ELSE UNCHANGED <<store, callVars, srVars, ixVars, reVars>>

\* the admin client has its answer and may send its next request
AdminDone ==
    /\ adminReply # NoReply
    /\ adminReply' = NoReply
    /\ status' = NoStatus
    /\ UNCHANGED <<store, callVars, srVars, ixVars, reVars>>

AdminInit == adminReply = NoReply

----------------------------------------------------------------------------
(* Projects CMS: POST / PATCH / DELETE /projects (project_service.py) *)

MaxProjects == 3

MaxClients == 2

Clients == 1 .. MaxClients

UpperCase == "ABCDEFGHIJKLMNOPQRSTUVWXYZ"
LowerCase == "abcdefghijklmnopqrstuvwxyz"
SlugAlphabet == "abcdefghijklmnopqrstuvwxyz0123456789-"

\* str.lower() on one character
ToLower(c) ==
    IF \E i \in 1 .. Len(UpperCase) : SubSeq(UpperCase, i, i) = c
    THEN LET i == CHOOSE i \in 1 .. Len(UpperCase) : SubSeq(UpperCase, i, i) = c
         IN SubSeq(LowerCase, i, i)
    ELSE c

\* re.sub(r"[^a-z0-9-]", "-", title.lower())
RECURSIVE SlugMap(_)
SlugMap(title) ==
    IF Len(title) = 0 THEN ""
    ELSE LET c == ToLower(SubSeq(title, 1, 1))
         IN (IF \E i \in 1 .. Len(SlugAlphabet) : SubSeq(SlugAlphabet, i, i) = c
             THEN c ELSE "-") \o SlugMap(SubSeq(title, 2, Len(title)))

\* str.strip("-")
RECURSIVE StripDash(_)
StripDash(str) ==
    IF Len(str) = 0 THEN str
    ELSE IF SubSeq(str, 1, 1) = "-" THEN StripDash(SubSeq(str, 2, Len(str)))
    ELSE IF SubSeq(str, Len(str), Len(str)) = "-" THEN StripDash(SubSeq(str, 1, Len(str) - 1))
    ELSE str

\* ProjectCreate.generate_slug: a non-empty slug is kept as it is, otherwise
\* the slug is derived from the title
generate_slug(v, title) == IF v # "" THEN v ELSE StripDash(SlugMap(title))

\* request bodies of POST /projects/ (slug "" stands for null or empty)
Titles == {"Ab", "!"}
PayloadSlugs == {"", "ab", "cd"}
Payloads == [title : Titles, slug : PayloadSlugs]

\* the validated ProjectCreate
ProjectCreate(payload) ==
    [title |-> payload.title, slug |-> generate_slug(payload.slug, payload.title)]

NoData == [title |-> "", slug |-> ""]

\* ProjectRepository.get_by_slug
get_by_slug(table, slug) == {row \in table : row.slug = slug}

\* ix_projects_slug (unique): the INSERT of a slug that is in the table fails
UniqueViolation(table, slug) == \E row \in table : row.slug = slug

\* ProjectService.create up to its commit: the slug check, skipped for an
\* empty slug; SlugConflictError is answered 409
CreateCheck(c, payload) ==
    LET data == ProjectCreate(payload)
    IN /\ crPc[c] = "idle"
       /\ prNextId <= MaxProjects
       /\ crData' = [crData EXCEPT ![c] = data]
       /\ IF data.slug # "" /\ get_by_slug(prTable, data.slug) # {}
          THEN /\ crPc' = [crPc EXCEPT ![c] = "done"]
               /\ crReply' = [crReply EXCEPT ![c] = 409]
          ELSE /\ crPc' = [crPc EXCEPT ![c] = "checked"]
               /\ crReply' = crReply
       /\ UNCHANGED <<prTable, prNextId>>

\* ProjectRepository.create: add and commit; an IntegrityError of the commit
\* is no PortfolioError and reaches the handler for Exception (500)
CreateCommit(c) ==
    /\ crPc[c] = "checked"
    /\ crPc' = [crPc EXCEPT ![c] = "done"]
    /\ IF UniqueViolation(prTable, crData[c].slug)
       THEN /\ crReply' = [crReply EXCEPT ![c] = 500]
            /\ UNCHANGED <<prTable, prNextId>>
       ELSE /\ prNextId <= MaxProjects
            /\ prTable' = prTable \cup
                    {[id |-> prNextId, slug |-> crData[c].slug, title |-> crData[c].title]}
            /\ prNextId' = prNextId + 1
            /\ crReply' = [crReply EXCEPT ![c] = 201]
    /\ UNCHANGED crData

\* the client has its response
CreateDone(c) ==
    /\ crPc[c] = "done"
    /\ crPc' = [crPc EXCEPT ![c] = "idle"]
    /\ crData' = [crData EXCEPT ![c] = NoData]
    /\ crReply' = [crReply EXCEPT ![c] = 0]
    /\ UNCHANGED <<prTable, prNextId>>

\* ProjectService.update: ProjectUpdate has no slug field, the slug stays
update_project(slug, title) ==
    /\ get_by_slug(prTable, slug) # {}
    /\ prTable' = {IF row.slug = slug THEN [row EXCEPT !.title = title] ELSE row :
                      row \in prTable}
    /\ UNCHANGED <<prNextId, crPc, crData, crReply>>

\* ProjectService.delete
delete_project(slug) ==
    /\ get_by_slug(prTable, slug) # {}
    /\ prTable' = prTable \ get_by_slug(prTable, slug)
    /\ UNCHANGED <<prNextId, crPc, crData, crReply>>

ProjectsInit ==
    /\ prTable = {}
    /\ prNextId = 1
    /\ crPc = [c \in Clients |-> "idle"]
    /\ crData = [c \in Clients |-> NoData]
    /\ crReply = [c \in Clients |-> 0]

----------------------------------------------------------------------------
(* /ai/write requests served concurrently by the one WritingService *)

MaxConcurrentChunks == 2

\* the requests in progress at the same time
Streams == {"A", "B"}

ConcurrentRequests ==
    {[mode |-> "write", prompt |-> "Draft", hasContext |-> FALSE, context |-> ""],
     [mode |-> "improve", prompt |-> "Draft", hasContext |-> TRUE, context |-> "notes"],
     [mode |-> "summarise", prompt |-> " \n", hasContext |-> FALSE, context |-> ""]}

ConcurrentChunks ==
    {[choices |-> 0, hasContent |-> FALSE, content |-> ""],
     [choices |-> 1, hasContent |-> TRUE, content |-> "Hi"],
     [choices |-> 1, hasContent |-> TRUE, content |-> "[DONE]"]}

\* variant: the message list is an attribute of the service, appended to by
\* every call
stream_messages_OnInstance(shared, req) ==
    [messages |-> shared \o BuildMessages(req), shared |-> shared \o BuildMessages(req)]

\* WritingService.stream up to the provider call: `messages` is a local
\* list; the instance holds the client only and is not written
stream_messages(shared, req) == [messages |-> BuildMessages(req), shared |-> shared]

\* POST /ai/write of request r
ConcurrentWrite(r, req) ==
    /\ cwPc[r] = "idle"
    /\ cwReq' = [cwReq EXCEPT ![r] = req]
    /\ cwDelivered' = [cwDelivered EXCEPT ![r] = <<>>]
    /\ cwFrames' = [cwFrames EXCEPT ![r] = <<>>]
    /\ IF Strip(req.prompt) = ""
       THEN /\ cwPc' = [cwPc EXCEPT ![r] = "rejected"]
            /\ cwMessages' = [cwMessages EXCEPT ![r] = <<>>]
            /\ cwShared' = cwShared
       ELSE /\ cwPc' = [cwPc EXCEPT ![r] = "create"]
            /\ cwMessages' = [cwMessages EXCEPT ![r] = stream_messages(cwShared, req).messages]
            /\ cwShared' = stream_messages(cwShared, req).shared

\* chat.completions.create returns the stream of request r
ConcurrentCreateOk(r) ==
    /\ cwPc[r] = "create"
    /\ cwPc' = [cwPc EXCEPT ![r] = "streaming"]
    /\ UNCHANGED <<cwShared, cwReq, cwMessages, cwDelivered, cwFrames>>

\* one iteration of `async for chunk in stream` of request r
ConcurrentChunk(r, chunk) ==
    /\ cwPc[r] = "streaming"
    /\ Len(cwDelivered[r]) < MaxConcurrentChunks
    /\ cwDelivered' = [cwDelivered EXCEPT ![r] = Append(@, chunk)]
    /\ cwFrames' = [cwFrames EXCEPT ![r] =
                       IF YieldsDelta(chunk) THEN Append(@, DataFrame(chunk.content)) ELSE @]
    /\ UNCHANGED <<cwShared, cwPc, cwReq, cwMessages>>

\* the provider stream of request r is exhausted
ConcurrentEnd(r) ==
    /\ cwPc[r] = "streaming"
    /\ cwPc' = [cwPc EXCEPT ![r] = "completed"]
    /\ cwFrames' = [cwFrames EXCEPT ![r] = Append(@, DoneFrame)]
    /\ UNCHANGED <<cwShared, cwReq, cwMessages, cwDelivered>>

\* the provider call or the stream of request r raises
ConcurrentFail(r, kind) ==
    /\ cwPc[r] \in {"create", "streaming"}
    /\ IF kind = "OpenAIError"
       THEN /\ cwPc' = [cwPc EXCEPT ![r] = "failed"]
            /\ cwFrames' = [cwFrames EXCEPT ![r] =
                               @ \o <<ErrorFrame(AIServiceErrorMessage), DoneFrame>>]
       ELSE /\ cwPc' = [cwPc EXCEPT ![r] = "crashed"]
            /\ cwFrames' = cwFrames
    /\ UNCHANGED <<cwShared, cwReq, cwMessages, cwDelivered>>

\* the client of request r disconnects
ConcurrentDisconnect(r) ==
    /\ cwPc[r] \in {"create", "streaming"}
    /\ cwPc' = [cwPc EXCEPT ![r] = "closed"]
    /\ UNCHANGED <<cwShared, cwReq, cwMessages, cwDelivered, cwFrames>>

\* the response of request r is over
ConcurrentFinish(r) ==
    /\ cwPc[r] \in {"rejected", "completed", "failed", "crashed", "closed"}
    /\ cwPc' = [cwPc EXCEPT ![r] = "idle"]
    /\ cwReq' = [cwReq EXCEPT ![r] = NoRequest]
    /\ cwMessages' = [cwMessages EXCEPT ![r] = <<>>]
    /\ cwDelivered' = [cwDelivered EXCEPT ![r] = <<>>]
    /\ cwFrames' = [cwFrames EXCEPT ![r] = <<>>]
    /\ cwShared' = cwShared

ConcurrentInit ==
    /\ cwShared = <<>>
    /\ cwPc = [r \in Streams |-> "idle"]
    /\ cwReq = [r \in Streams |-> NoRequest]
    /\ cwMessages = [r \in Streams |-> <<>>]
    /\ cwDelivered = [r \in Streams |-> <<>>]
    /\ cwFrames = [r \in Streams |-> <<>>]

----------------------------------------------------------------------------
(* RequestIDMiddleware and the logging filter (core/middleware.py) *)

\* requests in progress at the same time
Requests == {"P", "Q"}

\* X-Request-ID values clients send ("": no header), and what uuid4 returns
ClientIds == {"", "trace-7"}
Uuids == {"uuid-1", "uuid-2"}

\* loggers a request logs on: the root logger, and a module logger
\* (logging.getLogger(__name__)), whose records propagate to the root handlers
Loggers == {"root", "app.api.v1.routes.ai"}

\* a LogRecord as created: no request_id attribute
LogRecord(request, logger) == [request |-> request, logger |-> logger, request_id |-> ""]

NoRecord == LogRecord("", "")

\* _RequestIDFilter.filter
RequestIDFilter(request_id, record) == [record EXCEPT !.request_id = request_id]

\* Filterer.filter: the filters of a logger are applied in the order added
RECURSIVE ApplyFilters(_, _)
ApplyFilters(filters, record) ==
    IF Len(filters) = 0 THEN record
    ELSE ApplyFilters(Tail(filters), RequestIDFilter(Head(filters).request_id, record))

\* Logger.handle: the filters added with logging.getLogger().addFilter are
\* those of the root logger; they are applied to the records logged on the
\* root logger, not to the records that propagate to its handlers
Handle(logger, filters, record) ==
    IF logger = "root" THEN ApplyFilters(filters, record) ELSE record

\* dispatch up to `await call_next(request)`
dispatch(r, header, uuid) ==
    /\ rqPc[r] = "idle"
    /\ \A q \in Requests : rqPc[q] # "idle" => rqId[q] # uuid
    /\ LET request_id == IF header # "" THEN header ELSE uuid
       IN /\ rqId' = [rqId EXCEPT ![r] = request_id]
          /\ rootFilters' = Append(rootFilters, [owner |-> r, request_id |-> request_id])
    /\ rqHeader' = [rqHeader EXCEPT ![r] = header]
    /\ rqPc' = [rqPc EXCEPT ![r] = "running"]
    /\ lastRecord' = NoRecord
    /\ UNCHANGED rqEcho

\* code running inside call_next for request r logs a record
LogWithin(r, logger) ==
    /\ rqPc[r] = "running"
    /\ lastRecord' = Handle(logger, rootFilters, LogRecord(r, logger))
    /\ UNCHANGED <<rootFilters, rqPc, rqHeader, rqId, rqEcho>>

\* call_next returns the response: the filter is removed, the header is set
CallNextReturns(r) ==
    /\ rqPc[r] = "running"
    /\ rootFilters' = SelectSeq(rootFilters, LAMBDA f : f.owner # r)
    /\ rqEcho' = [rqEcho EXCEPT ![r] = rqId[r]]
    /\ rqPc' = [rqPc EXCEPT ![r] = "done"]
    /\ lastRecord' = NoRecord
    /\ UNCHANGED <<rqHeader, rqId>>

\* call_next raises: the finally clause removes the filter, the exception
\* leaves dispatch
CallNextRaises(r) ==
    /\ rqPc[r] = "running"
    /\ rootFilters' = SelectSeq(rootFilters, LAMBDA f : f.owner # r)
    /\ rqPc' = [rqPc EXCEPT ![r] = "raised"]
    /\ lastRecord' = NoRecord
    /\ UNCHANGED <<rqHeader, rqId, rqEcho>>

\* the request is over
RequestOver(r) ==
    /\ rqPc[r] \in {"done", "raised"}
    /\ rqPc' = [rqPc EXCEPT ![r] = "idle"]
    /\ rqHeader' = [rqHeader EXCEPT ![r] = ""]
    /\ rqId' = [rqId EXCEPT ![r] = ""]
    /\ rqEcho' = [rqEcho EXCEPT ![r] = ""]
    /\ lastRecord' = NoRecord
    /\ UNCHANGED rootFilters

RequestsInit ==
    /\ rootFilters = <<>>
    /\ rqPc = [r \in Requests |-> "idle"]
    /\ rqHeader = [r \in Requests |-> ""]
    /\ rqId = [r \in Requests |-> ""]
    /\ rqEcho = [r \in Requests |-> ""]
    /\ lastRecord = NoRecord

----------------------------------------------------------------------------
(* Specifications *)

\* what a client keeps of a search: its arguments, the query embedding and
\* the list it got
NoSearch == [valid |-> FALSE, query |-> "", limit |-> 0, vec |-> <<>>, result |-> <<>>]

RepeatInit == srPrev = NoSearch

\* what is remembered of the runs of re_embed_all: the completed ones (at
\* most MaxRuns are started) and whether one crashed
MaxRuns == 2

NoPast == [crashed |-> FALSE, runs |-> 0]

PastInit == rePast = NoPast

RagInit ==
    /\ store = [id \in Ids |-> AbsentRow]
    /\ embedCalls = 0
    /\ dbCalls = 0
    /\ fault = "none"
    /\ SearchInit
    /\ IndexInit
    /\ ReInit
    /\ status = NoStatus

Init == WriteInit /\ RagInit /\ RepeatInit /\ AdminInit /\ ProjectsInit /\ ConcurrentInit /\ PastInit
        /\ RequestsInit

\* a step of a RagService call or of the CMS; the last status response is
\* consumed by then
Served(step) == step /\ status' = NoStatus /\ UNCHANGED <<wrVars, repVars, admVars, prVars, cwVars, histVars, ridVars>>

Next ==
    \/ \E id \in Ids : Served(CreateItem(id))
    \/ \E id \in Ids : Served(DeleteItem(id))
    \/ \E query \in Queries, limit \in Limits : Served(search(query, limit))
    \/ \E reply \in EmbedReplies(Strip(srQuery)) : Served(SearchEmbedReply(reply))
    \/ \E dbOk \in BOOLEAN : Served(SearchQuery(dbOk))
    \/ Served(SearchFinish)
    \/ \E table \in TableNames, id \in Ids :
          \E content \in IndexContents(id) : Served(index_text(table, id, content))
    \/ \E reply \in EmbedReplies(Strip(ixContent)) : Served(IndexEmbedReply(reply))
    \/ \E dbOk \in BOOLEAN : Served(IndexWrite(dbOk))
    \/ Served(IndexFinish)
    \/ Served(re_embed_all)
    \/ \E dbOk \in BOOLEAN : Served(ReList(dbOk))
    \/ Served(ReFinish)
    \/ \E dbOk \in BOOLEAN : get_embed_status(dbOk) /\ UNCHANGED <<wrVars, repVars, admVars, prVars, cwVars, histVars, ridVars>>

Spec == Init /\ [][Next]_vars

InitStream == Init

NextStream ==
    \/ \E req \in WriteRequest : ai_write(req) /\ UNCHANGED <<ragVars, repVars, admVars, prVars, cwVars, histVars, ridVars>>
    \/ CreateOk /\ UNCHANGED <<ragVars, repVars, admVars, prVars, cwVars, histVars, ridVars>>
    \/ \E kind \in ProviderErrors : CreateFail(kind) /\ UNCHANGED <<ragVars, repVars, admVars, prVars, cwVars, histVars, ridVars>>
    \/ \E chunk \in ProviderChunks : StreamChunk(chunk) /\ UNCHANGED <<ragVars, repVars, admVars, prVars, cwVars, histVars, ridVars>>
    \/ StreamEnd /\ UNCHANGED <<ragVars, repVars, admVars, prVars, cwVars, histVars, ridVars>>
    \/ ClientDisconnect /\ UNCHANGED <<ragVars, repVars, admVars, prVars, cwVars, histVars, ridVars>>
    \/ \E kind \in ProviderErrors : StreamFail(kind) /\ UNCHANGED <<ragVars, repVars, admVars, prVars, cwVars, histVars, ridVars>>
    \/ WriteFinish /\ UNCHANGED <<ragVars, repVars, admVars, prVars, cwVars, histVars, ridVars>>

SpecStream == InitStream /\ [][NextStream]_vars

\* A client that searches repeatedly while content is created and indexed:
\* a search that returned without failure is remembered when it ends, and
\* forgotten as soon as the store contents change.
Remembered(step) ==
    /\ step
    /\ srPrev' = IF srPc = "returned" /\ srPc' = "idle" /\ fault = "none"
                 THEN [valid |-> TRUE, query |-> srQuery, limit |-> srLimit, vec |-> srVec,
                       result |-> srResult]
                 ELSE IF store' # store THEN NoSearch
                 ELSE srPrev
    /\ UNCHANGED <<wrVars, status, admVars, prVars, cwVars, histVars, ridVars>>

InitRepeat == Init

NextRepeat ==
    \/ \E id \in Ids : Remembered(CreateItem(id))
    \/ \E table \in TableNames, id \in Ids :
          \E content \in IndexContents(id) : Remembered(index_text(table, id, content))
    \/ \E reply \in EmbedReplies(Strip(ixContent)) : Remembered(IndexEmbedReply(reply))
    \/ \E dbOk \in BOOLEAN : Remembered(IndexWrite(dbOk))
    \/ Remembered(IndexFinish)
    \/ \E query \in Queries, limit \in Limits : Remembered(search(query, limit))
    \/ \E reply \in EmbedReplies(Strip(srQuery)) : Remembered(SearchEmbedReply(reply))
    \/ \E dbOk \in BOOLEAN : Remembered(SearchQuery(dbOk))
    \/ Remembered(SearchFinish)

SpecRepeat == InitRepeat /\ [][NextRepeat]_vars

\* The admin endpoints as the HTTP layer serves them, beside the CMS and
\* the steps of the re_embed_all run an authorised request started (with a
\* store that answers and a provider that returns vectors).
Background(step) ==
    step /\ adminReply' = NoReply /\ status' = NoStatus /\ UNCHANGED <<wrVars, repVars, prVars, cwVars, histVars, ridVars>>

InitAdmin == Init

NextAdmin ==
    \/ \E cred \in Credentials, dbOk \in BOOLEAN :
          \E lookupOk \in LookupOutcomes(cred) :
             ai_embed_status(cred, lookupOk, dbOk) /\ UNCHANGED <<wrVars, repVars, prVars, cwVars, histVars, ridVars>>
    \/ \E cred \in Credentials :
          \E lookupOk \in LookupOutcomes(cred) :
             ai_re_embed(cred, lookupOk) /\ UNCHANGED <<wrVars, repVars, prVars, cwVars, histVars, ridVars>>
    \/ AdminDone /\ UNCHANGED <<wrVars, repVars, prVars, cwVars, histVars, ridVars>>
    \/ \E id \in Ids : Background(CreateItem(id))
    \/ Background(ReList(TRUE))
    \/ \E reply \in {r \in EmbedReplies(Strip(ixContent)) : r.ok} :
          Background(IndexEmbedReply(reply))
    \/ Background(IndexWrite(TRUE))
    \/ Background(ReFinish)

SpecAdmin == InitAdmin /\ [][NextAdmin]_vars

\* The projects CMS served to several clients at once.
InitProjects == Init

NextProjects ==
    \/ \E c \in Clients, payload \in Payloads :
          CreateCheck(c, payload) /\ UNCHANGED <<wrVars, ragVars, repVars, admVars, cwVars, histVars, ridVars>>
    \/ \E c \in Clients : CreateCommit(c) /\ UNCHANGED <<wrVars, ragVars, repVars, admVars, cwVars, histVars, ridVars>>
    \/ \E c \in Clients : CreateDone(c) /\ UNCHANGED <<wrVars, ragVars, repVars, admVars, cwVars, histVars, ridVars>>
    \/ \E row \in prTable, title \in Titles :
          update_project(row.slug, title) /\ UNCHANGED <<wrVars, ragVars, repVars, admVars, cwVars, histVars, ridVars>>
    \/ \E row \in prTable :
          delete_project(row.slug) /\ UNCHANGED <<wrVars, ragVars, repVars, admVars, cwVars, histVars, ridVars>>

SpecProjects == InitProjects /\ [][NextProjects]_vars

\* The provider calls of every operation: RagService and CMS as in Spec, and
\* /ai/write as in SpecStream. The two share no state; here the write
\* requests are served while the store is empty and no RagService call runs.
InitCalls == Init

NextCalls ==
    \/ wrPc = "idle" /\ Next
    \/ RagIdle /\ store = [id \in Ids |-> AbsentRow] /\ NextStream

SpecCalls == InitCalls /\ [][NextCalls]_vars

\* An operator who runs re_embed_all repeatedly, over rows that are created
\* in between, with runs that crash and runs that complete.
Tracked(step) ==
    /\ step
    /\ rePast' = IF rePc \in {"list", "item"} /\ rePc' = "idle"
                 THEN [rePast EXCEPT !.crashed = TRUE]
                 ELSE IF rePc # "done" /\ rePc' = "done"
                 THEN [rePast EXCEPT !.runs = @ + 1]
                 ELSE rePast
    /\ UNCHANGED <<wrVars, status, repVars, admVars, prVars, cwVars, ridVars>>

InitReEmbed == Init

NextReEmbed ==
    \/ \E id \in Ids : Tracked(CreateItem(id))
    \/ rePast.runs < MaxRuns /\ Tracked(re_embed_all)
    \/ \E dbOk \in BOOLEAN : Tracked(ReList(dbOk))
    \/ \E reply \in EmbedReplies(Strip(ixContent)) : Tracked(IndexEmbedReply(reply))
    \/ \E dbOk \in BOOLEAN : Tracked(IndexWrite(dbOk))
    \/ Tracked(ReFinish)
    \/ Tracked(ReCrash)

SpecReEmbed == InitReEmbed /\ [][NextReEmbed]_vars

\* Requests passing through RequestIDMiddleware at the same time.
InitRequests == Init

NextRequests ==
    \/ \E r \in Requests, header \in ClientIds, uuid \in Uuids :
          dispatch(r, header, uuid)
             /\ UNCHANGED <<wrVars, ragVars, repVars, admVars, prVars, cwVars, histVars>>
    \/ \E r \in Requests, logger \in Loggers :
          LogWithin(r, logger)
             /\ UNCHANGED <<wrVars, ragVars, repVars, admVars, prVars, cwVars, histVars>>
    \/ \E r \in Requests :
          CallNextReturns(r)
             /\ UNCHANGED <<wrVars, ragVars, repVars, admVars, prVars, cwVars, histVars>>
    \/ \E r \in Requests :
          CallNextRaises(r)
             /\ UNCHANGED <<wrVars, ragVars, repVars, admVars, prVars, cwVars, histVars>>
    \/ \E r \in Requests :
          RequestOver(r)
             /\ UNCHANGED <<wrVars, ragVars, repVars, admVars, prVars, cwVars, histVars>>

SpecRequests == InitRequests /\ [][NextRequests]_vars

\* Several /ai/write requests in progress at once.
InitConcurrent == Init

NextConcurrent ==
    \/ \E r \in Streams, req \in ConcurrentRequests :
          ConcurrentWrite(r, req) /\ UNCHANGED <<wrVars, ragVars, repVars, admVars, prVars, histVars, ridVars>>
    \/ \E r \in Streams :
          ConcurrentCreateOk(r) /\ UNCHANGED <<wrVars, ragVars, repVars, admVars, prVars, histVars, ridVars>>
    \/ \E r \in Streams, chunk \in ConcurrentChunks :
          ConcurrentChunk(r, chunk) /\ UNCHANGED <<wrVars, ragVars, repVars, admVars, prVars, histVars, ridVars>>
    \/ \E r \in Streams :
          ConcurrentEnd(r) /\ UNCHANGED <<wrVars, ragVars, repVars, admVars, prVars, histVars, ridVars>>
    \/ \E r \in Streams, kind \in ProviderErrors :
          ConcurrentFail(r, kind) /\ UNCHANGED <<wrVars, ragVars, repVars, admVars, prVars, histVars, ridVars>>
    \/ \E r \in Streams :
          ConcurrentDisconnect(r) /\ UNCHANGED <<wrVars, ragVars, repVars, admVars, prVars, histVars, ridVars>>
    \/ \E r \in Streams :
          ConcurrentFinish(r) /\ UNCHANGED <<wrVars, ragVars, repVars, admVars, prVars, histVars, ridVars>>

SpecConcurrent == InitConcurrent /\ [][NextConcurrent]_vars

----------------------------------------------------------------------------
(* Properties of the /ai/write stream (checked under SpecStream) *)

StreamOver == wrPc \in {"completed", "failed", "crashed"}

LastFrameIsDone == Len(wrFrames) > 0 /\ wrFrames[Len(wrFrames)] = "data: [DONE]\n\n"

\* C1: every response stream of POST /ai/write ends with the frame
\* `data: [DONE]\n\n`, whichever way the generator exits: normal completion,
\* provider failure before or after output, or any other exception.
C1_DoneOnEveryExit == StreamOver => LastFrameIsDone

\* the non-empty content deltas among the chunks the provider delivered
RECURSIVE ContentDeltas(_)
ContentDeltas(chunks) ==
    IF Len(chunks) = 0 THEN <<>>
    ELSE LET c == Head(chunks)
         IN IF c.choices >= 1 /\ c.hasContent /\ Len(c.content) > 0
            THEN <<c.content>> \o ContentDeltas(Tail(chunks))
            ELSE ContentDeltas(Tail(chunks))

IsErrorFrame(f) ==
    /\ Len(f) > Len("event: error\ndata: \n\n")
    /\ SubSeq(f, 1, Len("event: error\ndata: ")) = "event: error\ndata: "
    /\ SubSeq(f, Len(f) - 1, Len(f)) = "\n\n"

----------------------------------------------------------------------------
(* Properties of RagService (checked under Spec) *)

Existing == {id \in Ids : store[id].exists}

Embedded == {id \in Ids : store[id].exists /\ store[id].embedding # <<>>}

LogEntries(outcomes) == {i \in 1 .. Len(reLog) : reLog[i].outcome \in outcomes}

StatusOf(table) ==
    CASE table = "projects" -> status.projects
      [] table = "posts" -> status.posts
      [] table = "certifications" -> status.certifications

\* C3: a re_embed_all run to completion over a fixed set of items in which
\* exactly n items fail (their embedding call, or the write that follows it)
\* returns errors = n and indexed = total - n, and a status taken afterwards
\* counts every re-embedded item as indexed.
C3_ReEmbedCounts ==
    (rePc = "done" /\ reFixed) =>
        LET total == Cardinality(Existing)
            n == Cardinality(LogEntries({"embed_failed", "write_failed"}))
            done == {reLog[i].id : i \in LogEntries({"indexed"})}
        IN /\ errors = n
           /\ indexed = total - n
           /\ indexed + errors = total
           /\ \A id \in done : store[id].exists /\ store[id].embedding # <<>>
           /\ status.taken =>
                 \A table \in {"projects", "posts", "certifications"} :
                    StatusOf(table).indexed >=
                        Cardinality({id \in done : TableOf(id) = table})

\* three items, the embedding of one failed, and the status was read after the run
C3_Witness ==
    /\ rePc = "done"
    /\ reFixed
    /\ status.taken
    /\ Cardinality(Existing) = 3
    /\ Cardinality(LogEntries({"embed_failed"})) = 1
    /\ errors = 1
    /\ indexed = 2
    /\ status.projects.indexed + status.posts.indexed + status.certifications.indexed = 2

\* C4: in re_embed_all a failing item never aborts the batch: the items
\* attempted are exactly the items listed, each once and in listing order,
\* the run ends by returning its counts, and only a failing SELECT (never a
\* failing item) makes it raise.
C4_FailureIsolation ==
    /\ Len(reLog) <= Len(reListed)
    /\ \A i \in 1 .. Len(reLog) : reLog[i].id = reListed[i]
    /\ rePc = "item" => (Len(reLog) < Len(reListed) /\ ixRowId = reListed[Len(reLog) + 1])
    /\ rePc = "done" => (Len(reLog) = Len(reListed) /\ indexed + errors = Len(reListed))
    /\ rePc = "raised" => (fault = "db" /\ ixPc = "idle" /\ Len(reLog) = Len(reListed))

\* the run returned although an item failed, and a later item was embedded and written
C4_Witness ==
    /\ rePc = "done"
    /\ \E i, j \in 1 .. Len(reLog) :
          /\ i < j
          /\ reLog[i].outcome \in {"embed_failed", "write_failed"}
          /\ reLog[j].outcome = "indexed"
          /\ store[reLog[j].id].embedding # <<>>

\* C5: search raises AIServiceError and issues no store query when the
\* embedding call fails; it returns [] and raises nothing when the embedding
\* succeeds and the store read fails.
C5_SearchFailures ==
    srPc \in {"returned", "raised"} =>
        /\ fault = "embed" => (srPc = "raised" /\ dbCalls = 0)
        /\ fault = "db" => (srPc = "returned" /\ srResult = <<>> /\ dbCalls = 1)
        /\ srPc = "raised" => fault = "embed"

\* the store read failed although rows with an embedding were there to be found
C5_Witness ==
    /\ srPc = "returned"
    /\ fault = "db"
    /\ embedCalls = 1
    /\ srLimit > 0
    /\ Embedded # {}
    /\ srResult = <<>>

\* C6 as stated: an embedding failure during search yields an empty result
\* list returned to the caller rather than an error.
C6_EmbedFailureDegrades ==
    (srPc \in {"returned", "raised"} /\ fault = "embed") =>
        (srPc = "returned" /\ srResult = <<>>)

\* C6 amended: an embedding failure during search is propagated to the
\* caller as AIServiceError; search returns a list (possibly the degraded
\* empty one) only when the query embedding was obtained.
C6_EmbedFailurePropagates ==
    /\ (srPc # "idle" /\ fault = "embed") => (srPc = "raised" /\ srVec = <<>>)
    /\ srPc = "returned" => (fault # "embed" /\ Len(srVec) = 1)

\* the embedding call of a search failed
C6_Witness ==
    /\ srPc = "raised"
    /\ fault = "embed"
    /\ embedCalls = 1
    /\ Embedded # {}

\* the step in which the UNION query of search returns
SearchReturns == srPc = "query" /\ srPc' = "returned"

\* C7: for every non-empty query, every k and any store contents, search
\* returns at most k results, in non-decreasing order of distance, none of
\* which is a row with a NULL embedding.
C7_SearchAtMostKSorted ==
    [][SearchReturns =>
        /\ Len(srResult') <= srLimit
        /\ \A i \in 1 .. Len(srResult') - 1 :
              srResult'[i].distance <= srResult'[i + 1].distance
        /\ \A i \in 1 .. Len(srResult') :
              /\ store[srResult'[i].id].exists
              /\ store[srResult'[i].id].embedding # <<>>]_vars

\* two results at increasing distance while a row without embedding exists
C7_Witness ==
    /\ srPc = "returned"
    /\ srLimit = 2
    /\ Len(srResult) = 2
    /\ srResult[1].distance < srResult[2].distance
    /\ \E id \in Existing : store[id].embedding = <<>>

\* C8: search ranks over the union of the three tables: it returns exactly
\* min(k, number of rows with an embedding) distinct rows, and no row with an
\* embedding that is left out is strictly nearer than a returned one.
C8_GlobalRanking ==
    [][(SearchReturns /\ fault' # "db" /\ srVec[1].dim = EMBEDDING_DIMENSIONS) =>
        LET res == srResult'
            resIds == {res[i].id : i \in 1 .. Len(res)}
            dist(id) == Distance(srVec[1], store[id].embedding[1])
        IN /\ Len(res) = Min(srLimit, Cardinality(Embedded))
           /\ Cardinality(resIds) = Len(res)
           /\ resIds \subseteq Embedded
           /\ \A i \in 1 .. Len(res) :
                 /\ res[i].distance = dist(res[i].id)
                 /\ res[i].type = TypeOf(TableOf(res[i].id))
           /\ \A e \in Embedded \ resIds : \A i \in 1 .. Len(res) :
                 dist(e) >= res[i].distance]_vars

\* both results come from projects while an embedded post is left out
C8_Witness ==
    /\ srPc = "returned"
    /\ fault = "none"
    /\ srLimit = 2
    /\ Len(srResult) = 2
    /\ srResult[1].type = "project"
    /\ srResult[2].type = "project"
    /\ \E id \in Embedded : TableOf(id) = "posts"

\* C9: index_text with a table outside the allow-list raises ValueError
\* without any embedding call or store statement, and leaves the store as it is.
C9_InvalidTableRejected ==
    [][/\ (ixPc = "idle" /\ ixPc' # "idle" /\ ixTable' \notin {"projects", "posts", "certifications"})
          => (ixPc' = "raised_value" /\ embedCalls' = 0 /\ dbCalls' = 0 /\ store' = store)
       /\ ixPc = "raised_value"
          => (ixPc' \in {"raised_value", "idle"} /\ embedCalls' = 0 /\ dbCalls' = 0)]_vars

\* index_text was called for an existing row with a table that is not allowed
C9_Witness ==
    /\ ixPc = "raised_value"
    /\ ixTable = "users"
    /\ ixExisted
    /\ store[ixRowId].exists
    /\ store[ixRowId].embedding = <<>>

\* the step in which the UPDATE of index_text is executed
WriteStep == ixPc = "write" /\ (ixPc' # "write" \/ reLog' # reLog)

TargetAbsent == ~(store[ixRowId].exists /\ TableOf(ixRowId) = ixTable)

\* C10: when the target row does not exist at the time of the write (never
\* existed, or deleted since the embedding call), index_text changes no row
\* and creates none, and it returns normally unless the store itself fails.
C10_MissingTargetNoOp ==
    [][(WriteStep /\ TargetAbsent) =>
        /\ store' = store
        /\ (ixCaller = "direct" /\ fault' # "db" /\ ixVec[1].dim = ColumnDimensions)
              => (ixPc' = "returned" /\ ixRowcount' = 0)]_vars

\* the row existed when index_text was called and was gone at the UPDATE
C10_Witness ==
    /\ ixPc = "returned"
    /\ ixCaller = "direct"
    /\ ixExisted
    /\ TableOf(ixRowId) = ixTable
    /\ ixRowcount = 0
    /\ embedCalls = 1

\* the step in which index_text, called from re_embed_all, ends
ReItemEnds == rePc = "item" /\ Len(reLog') = Len(reLog) + 1

\* C11: after any sequence of index_text and re_embed_all operations every
\* non-null stored embedding has length exactly EMBEDDING_DIMENSIONS; a
\* provider vector of any other length (700, say) is rejected at the write:
\* the call fails and the store keeps what it had.
C11_StoredLengthIsD ==
    [][/\ \A id \in Ids :
             store'[id].embedding # <<>> => store'[id].embedding[1].dim = EMBEDDING_DIMENSIONS
       /\ (WriteStep /\ ixVec[1].dim # EMBEDDING_DIMENSIONS) =>
             /\ store' = store
             /\ ixCaller = "direct" => ixPc' = "raised_ai"
             /\ ixCaller = "re_embed_all" =>
                    (ReItemEnds /\ reLog'[Len(reLog')].outcome = "write_failed"
                        /\ errors' = errors + 1 /\ indexed' = indexed)]_vars

\* the provider answered with 700 numbers for an existing row; the store was
\* reachable, refused the vector, and the row still has no embedding
C11_Witness ==
    /\ ixPc = "raised_ai"
    /\ ixCaller = "direct"
    /\ fault = "none"
    /\ ixVec = <<[dim |-> 700, dir |-> 4]>>
    /\ store[ixRowId].exists
    /\ TableOf(ixRowId) = ixTable
    /\ store[ixRowId].embedding = <<>>

\* empty or whitespace-only text
Blank(t) == \A i \in 1 .. Len(t) : SubSeq(t, i, i) \in {" ", "\n", "\t"}

\* the text re_embed_all builds for the i-th row it listed
ListedContent(i) == JoinColumns(RowColumns(reListed[i]))

\* rows of the run in progress whose index_text call has been made
ReAttempted == 1 .. (Len(reLog) + (IF rePc = "item" THEN 1 ELSE 0))

\* C12: for every empty or whitespace-only text embed returns the vector
\* of exactly EMBEDDING_DIMENSIONS zeros and makes no call to the provider
\* (hence cannot fail), in search as in index_text and re_embed_all.
C12_BlankEmbedsLocally ==
    /\ (srPc # "idle" /\ Blank(srQuery)) =>
          /\ srPc \in {"query", "returned"}
          /\ srVec = <<[dim |-> EMBEDDING_DIMENSIONS, dir |-> 0]>>
          /\ embedCalls = 0
    /\ (ixPc \in {"embed", "write", "returned", "raised_ai"} /\ Blank(ixContent)) =>
          /\ ixPc # "embed"
          /\ ixVec = <<[dim |-> EMBEDDING_DIMENSIONS, dir |-> 0]>>
          /\ ixCaller = "direct" => (embedCalls = 0 /\ fault # "embed")
    /\ rePc # "idle" =>
          /\ embedCalls = Cardinality({i \in ReAttempted : ~Blank(ListedContent(i))})
          /\ \A i \in 1 .. Len(reLog) :
                Blank(ListedContent(i)) => reLog[i].outcome # "embed_failed"

\* a whitespace-only row text was indexed without a provider call and the
\* row now holds the zero vector
C12_Witness ==
    /\ ixPc = "returned"
    /\ ixContent = " "
    /\ embedCalls = 0
    /\ ixRowcount = 1
    /\ store[ixRowId].embedding = <<[dim |-> 1536, dir |-> 0]>>

\* C13: for non-blank input every failure of the embedding call (transport
\* failure, error status, malformed body) leaves embed as AIServiceError and
\* as no other error type, and embed returns no vector: search and
\* index_text raise AIServiceError without a vector and without touching the
\* store, re_embed_all counts the row as an error.
C13_EmbedFailsAsAIServiceError ==
    [][/\ (srPc = "embed" /\ fault' = "embed") =>
             (srPc' = "raised" /\ srVec' = <<>> /\ srResult' = <<>> /\ dbCalls' = 0)
       /\ (ixPc = "embed" /\ ixCaller = "direct" /\ fault' = "embed") =>
             (ixPc' = "raised_ai" /\ ixVec' = <<>> /\ dbCalls' = 0 /\ store' = store)
       /\ (ixPc = "embed" /\ ixCaller = "re_embed_all" /\ ReItemEnds) =>
             (reLog'[Len(reLog')].outcome = "embed_failed" /\ errors' = errors + 1
                 /\ store' = store /\ rePc' # "raised")
       /\ srPc' # "crashed"
       /\ ixPc' # "crashed"]_vars

\* the embedding call of index_text failed for a row with text: no vector,
\* no statement, the row keeps its NULL embedding
C13_Witness ==
    /\ ixPc = "raised_ai"
    /\ fault = "embed"
    /\ ~Blank(ixContent)
    /\ embedCalls = 1
    /\ dbCalls = 0
    /\ ixVec = <<>>
    /\ store[ixRowId].exists
    /\ store[ixRowId].embedding = <<>>

\* C14: a status returned by get_embed_status while writers (index_text,
\* re_embed_all, item creation and deletion) are at work carries, for all
\* three collections, the total and indexed counts of one single state of
\* the store, the one it was read in; in particular indexed <= total for
\* every collection.
C14_StatusIsOneSnapshot ==
    status.taken =>
        \A table \in {"projects", "posts", "certifications"} :
            LET rows == {id \in Ids : store[id].exists /\ TableOf(id) = table}
            IN /\ StatusOf(table).total = Cardinality(rows)
               /\ StatusOf(table).indexed =
                      Cardinality({id \in rows : store[id].embedding # <<>>})
               /\ StatusOf(table).indexed <= StatusOf(table).total

\* the status was read in the middle of a re_embed_all run: one of the two
\* projects is indexed, the call for the next row is in progress
C14_Witness ==
    /\ status.taken
    /\ rePc = "item"
    /\ Len(reLog) >= 1
    /\ ixPc \in {"embed", "write"}
    /\ status.projects.total = 2
    /\ status.projects.indexed = 1
    /\ status.posts.total = 1
    /\ status.posts.indexed = 0

----------------------------------------------------------------------------
(* Further properties of the /ai/write stream (checked under SpecStream) *)

\* C15: once the client of a /ai/write stream has disconnected (the
\* response generator is closed) no further chunk is requested from the
\* provider stream and no further generation call is made for that request;
\* nothing of it goes on in the background.
C15_NoChunkAfterDisconnect ==
    [][wrPc = "closed" =>
          /\ wrPc' \in {"closed", "idle"}
          /\ Len(wrDelivered') <= Len(wrDelivered)
          /\ wrGenCalls' <= wrGenCalls
          /\ Len(wrFrames') <= Len(wrFrames)]_vars

\* the client left after one relayed delta, with the provider stream still open
C15_Witness ==
    /\ wrPc = "closed"
    /\ Len(wrDelivered) = 1
    /\ Len(wrFrames) = 1
    /\ wrGenCalls = 1
    /\ wrFailure = "none"

\* generation was called for the request being served
Generating == wrPc \in {"create", "streaming", "completed", "failed", "crashed", "closed"}

SystemMessageOf(mode) ==
    [role |-> "system",
     content |-> CASE mode = "write" -> WRITE_SYSTEM_PROMPT
                   [] mode = "improve" -> IMPROVE_SYSTEM_PROMPT
                   [] mode = "summarise" -> SUMMARISE_SYSTEM_PROMPT]

Framed(context, prompt) == "Context:\n" \o context \o "\n\nRequest:\n" \o prompt

\* C16 as stated: when the context field is present (not null) the user
\* message is `Context:\n<context>\n\nRequest:\n<prompt>`, otherwise the
\* prompt verbatim; the messages are the mode's system message followed by
\* that one user message.
C16_ContextPresentFramed ==
    Generating =>
        wrMessages =
            << SystemMessageOf(wrReq.mode),
               [role |-> "user",
                content |-> IF wrReq.hasContext
                            THEN Framed(wrReq.context, wrReq.prompt)
                            ELSE wrReq.prompt] >>

\* C16 amended: the user message is framed when the context is present and
\* not the empty string; with a null or an empty context the prompt is sent
\* verbatim; the messages are exactly the system message of the request's
\* mode followed by that one user message.
C16_NonEmptyContextFramed ==
    Generating =>
        /\ Len(wrMessages) = 2
        /\ wrMessages[1] = SystemMessageOf(wrReq.mode)
        /\ wrMessages[2].role = "user"
        /\ (wrReq.hasContext /\ Len(wrReq.context) > 0)
              => wrMessages[2].content = Framed(wrReq.context, wrReq.prompt)
        /\ (~wrReq.hasContext \/ Len(wrReq.context) = 0)
              => wrMessages[2].content = wrReq.prompt

\* an improve request came with an empty context: its prompt went to the
\* provider verbatim, after the system message of its mode
C16_Witness ==
    /\ wrPc = "streaming"
    /\ wrReq = [mode |-> "improve", prompt |-> "Draft", hasContext |-> TRUE, context |-> ""]
    /\ wrMessages[1].content = IMPROVE_SYSTEM_PROMPT
    /\ wrMessages[2].content = "Draft"

\* C18: POST /ai/write with an empty or whitespace-only prompt is answered
\* with status 422; no stream is started for it (no frame, no message built)
\* and no call is made to the generation provider, up to the end of the
\* request; a prompt with text is never answered 422.
C18_BlankPromptRejected ==
    [][/\ (wrPc = "idle" /\ wrPc' # "idle") =>
             /\ Blank(wrReq'.prompt) =>
                    (wrStatus' = 422 /\ wrPc' = "rejected" /\ wrGenCalls' = 0
                        /\ wrFrames' = <<>> /\ wrMessages' = <<>>)
             /\ ~Blank(wrReq'.prompt) => (wrStatus' = 200 /\ wrGenCalls' = 1)
       /\ wrPc = "rejected" =>
             (wrPc' \in {"rejected", "idle"} /\ wrGenCalls' = 0 /\ wrFrames' = <<>>
                 /\ wrDelivered' = <<>>)]_vars

\* a whitespace-only prompt was refused
C18_Witness ==
    /\ wrPc = "rejected"
    /\ wrStatus = 422
    /\ wrReq.prompt = " \n"
    /\ wrGenCalls = 0
    /\ wrFrames = <<>>

----------------------------------------------------------------------------
(* Repeated searches (checked under SpecRepeat) *)

\* C17: a search that repeats an earlier one (same query, same k, same
\* query embedding) while the store contents are what they were returns the
\* identical list in the identical order, also when several rows are at
\* equal distance from the query.
C17_RepeatedSearchIdentical ==
    (/\ srPc = "returned"
     /\ fault = "none"
     /\ srPrev.valid
     /\ srPrev.query = srQuery
     /\ srPrev.limit = srLimit
     /\ srPrev.vec = srVec) => srResult = srPrev.result

----------------------------------------------------------------------------
(* Access to the admin endpoints (checked under SpecAdmin) *)

\* the token a request presents: its cookie, or else its Bearer header
Presented(cred) ==
    IF Len(cred.cookie) > 0 THEN cred.cookie
    ELSE IF Len(cred.authorization) >= 7 /\ SubSeq(cred.authorization, 1, 7) = "Bearer "
    THEN SubSeq(cred.authorization, 8, Len(cred.authorization))
    ELSE ""

\* tokens of the accounts that exist; of those that are active; of the superusers
AccountTokens == {"jwt.u1", "jwt.u2", "jwt.u3", "jwt.u4"}
ActiveTokens == {"jwt.u1", "jwt.u2"}
SuperuserTokens == {"jwt.u1", "jwt.u3"}

Rejected(code) == code \in {401, 403}

\* C19: GET /ai/embed-status and POST /ai/re-embed run their operation only
\* for an authenticated, active superuser: a request with no token or an
\* invalid one is answered 401, a request of an inactive or non-superuser
\* account 403 (its lookup answering), and a rejected request neither runs
\* get_embed_status / re_embed_all nor changes the store.
C19_AdminOnly ==
    [][(adminReply = NoReply /\ adminReply' # NoReply) =>
          LET r == adminReply'
              token == Presented(r.cred)
          IN /\ token \notin AccountTokens => r.code = 401
             /\ (token \in AccountTokens /\ r.lookup
                     /\ token \notin (ActiveTokens \cap SuperuserTokens)) => r.code = 403
             /\ ~Rejected(r.code) =>
                   /\ token \in (ActiveTokens \cap SuperuserTokens)
                   /\ r.endpoint = "re-embed" => (rePc = "idle" /\ rePc' = "list")
                   /\ r.endpoint = "embed-status" => (status'.taken <=> r.code = 200)
             /\ Rejected(r.code) =>
                   /\ store' = store
                   /\ ~status'.taken
                   /\ UNCHANGED <<callVars, srVars, ixVars, reVars>>]_vars

\* an active account that is no superuser asked for a re-embed: 403, no run
\* started, the rows keep their NULL embedding
C19_Witness ==
    /\ adminReply.endpoint = "re-embed"
    /\ adminReply.cred = [cookie |-> "", authorization |-> "Bearer jwt.u2"]
    /\ adminReply.code = 403
    /\ rePc = "idle"
    /\ Cardinality(Existing) = 2
    /\ Embedded = {}

----------------------------------------------------------------------------
(* Project slugs (checked under SpecProjects) *)

\* the step in which the create request of client c is answered
CreateAnswered(c) == crPc[c] # "done" /\ crPc'[c] = "done"

\* C20: a create whose slug is the slug of an existing project is answered
\* 409 Conflict and adds no project, also when creates with the same slug
\* run concurrently; after any sequence of create, update and delete no two
\* projects share a slug.
C20_DuplicateSlugConflict ==
    [][/\ \A c \in Clients :
             (CreateAnswered(c) /\ \E row \in prTable : row.slug = crData'[c].slug) =>
                 (crReply'[c] = 409 /\ prTable' = prTable)
       /\ \A r1, r2 \in prTable' : r1.slug = r2.slug => r1 = r2]_vars

----------------------------------------------------------------------------
(* The request state machine of /ai/write (checked under SpecStream) *)

\* the generator of the request is running (Streaming in the state machine)
InStreaming == wrPc \in {"create", "streaming"}

ErrorMarkers(frames) == {i \in 1 .. Len(frames) : IsErrorFrame(frames[i])}

\* C21: a request of /ai/write goes Idle -> Streaming -> {Completed | Failed}:
\* an accepted request whose client stays connected leaves Streaming only for
\* Completed (the sentinel after the content) or Failed (the error marker),
\* never for both and for nothing else; at most one error marker is ever
\* produced; once Completed or Failed, the outcome stays and no frame is added.
C21_RequestStateMachine ==
    [][/\ wrPc = "idle" => wrPc' \in {"idle", "rejected", "create"}
       /\ InStreaming => wrPc' \in {"create", "streaming", "completed", "failed", "closed"}
       /\ wrPc \in {"completed", "failed"} =>
             /\ wrPc' \in {wrPc, "idle"}
             /\ wrPc' = wrPc => (wrFrames' = wrFrames /\ wrDelivered' = wrDelivered)
       /\ Cardinality(ErrorMarkers(wrFrames')) <= 1
       /\ wrPc' = "completed" => ErrorMarkers(wrFrames') = {}
       /\ wrPc' = "failed" => Cardinality(ErrorMarkers(wrFrames')) = 1]_vars

\* frames that end the stream of a finished request: the sentinel, after the
\* error marker when the request failed
ClosingFrames == IF wrPc = "completed" THEN 1 ELSE IF wrPc = "failed" THEN 2 ELSE 0

\* C22: the data frames of a stream are exactly the non-empty content deltas
\* of the provider, in the provider's order, each as `data: <delta>\n\n`:
\* chunks without choices or with an empty or absent delta give no frame, and
\* no non-empty delta is dropped, duplicated or reordered.
C22_FramesAreDeltas ==
    Generating =>
        LET deltas == ContentDeltas(wrDelivered)
        IN /\ Len(wrFrames) = Len(deltas) + ClosingFrames
           /\ \A i \in 1 .. Len(deltas) : wrFrames[i] = "data: " \o deltas[i] \o "\n\n"

\* a completed stream of three chunks: one without choices, one with an
\* empty delta, one with text; a single data frame precedes the sentinel
C22_Witness ==
    /\ wrPc = "completed"
    /\ Len(wrDelivered) = 3
    /\ \E i \in 1 .. 3 : wrDelivered[i].choices = 0
    /\ \E i \in 1 .. 3 : wrDelivered[i].choices = 1 /\ wrDelivered[i].hasContent
                            /\ wrDelivered[i].content = ""
    /\ wrFrames = <<"data: Hi\n\n", "data: [DONE]\n\n">>

----------------------------------------------------------------------------
(* Concurrent /ai/write requests (checked under SpecConcurrent) *)

\* what belongs to request r
OwnState(r) == <<cwPc[r], cwReq[r], cwMessages[r], cwDelivered[r], cwFrames[r]>>

\* the messages request req alone calls for
MessagesOf(req) ==
    << SystemMessageOf(req.mode),
       [role |-> "user",
        content |-> IF req.hasContext /\ Len(req.context) > 0
                    THEN Framed(req.context, req.prompt)
                    ELSE req.prompt] >>

\* the frames that chunks `delivered` and outcome `pc` alone call for
FramesOf(delivered, pc) ==
    LET deltas == ContentDeltas(delivered)
    IN [i \in 1 .. Len(deltas) |-> "data: " \o deltas[i] \o "\n\n"]
       \o (IF pc = "completed" THEN <<"data: [DONE]\n\n">>
           ELSE IF pc = "failed"
           THEN <<"event: error\ndata: AI stream failed: Connection error.\n\n",
                  "data: [DONE]\n\n">>
           ELSE <<>>)

\* C23: for any interleaving of /ai/write requests served by the shared
\* WritingService and provider client, the messages sent for a request and
\* the frames returned for it are those of that request and of the provider's
\* responses to it alone; a step of one request changes nothing of another
\* request, and no request writes state of the shared service or client.
C23_RequestsIndependent ==
    [][/\ \A r \in Streams :
             /\ cwPc'[r] \notin {"idle", "rejected"} => cwMessages'[r] = MessagesOf(cwReq'[r])
             /\ cwFrames'[r] = FramesOf(cwDelivered'[r], cwPc'[r])
       /\ \A r, q \in Streams :
             (r # q /\ OwnState(r)' # OwnState(r)) => OwnState(q)' = OwnState(q)
       /\ cwShared' = cwShared]_vars

\* two different requests in progress at once: A is streaming with context,
\* B has failed after one delta; each has its own messages and frames
C23_Witness ==
    /\ cwPc["A"] = "streaming"
    /\ cwPc["B"] = "failed"
    /\ cwReq["A"].mode = "improve"
    /\ cwReq["B"].mode = "write"
    /\ cwMessages["A"] # cwMessages["B"]
    /\ Len(cwFrames["A"]) = 2
    /\ Len(cwFrames["B"]) = 3

----------------------------------------------------------------------------
(* Provider calls per operation (checked under SpecCalls) *)

\* C24: no operation retries a failed provider call: a search and a direct
\* index_text issue at most one embedding call, re_embed_all at most one per
\* item it has started on, a /ai/write request exactly one generation call
\* (none when it is rejected); once a call has failed the operation issues
\* no further call for the same search, item or request.
C24_NoRetry ==
    [][/\ srPc' # "idle" => embedCalls' <= 1
       /\ (ixPc' # "idle" /\ ixCaller' = "direct") => embedCalls' <= 1
       /\ rePc' # "idle" =>
             embedCalls' <= Len(reLog') + (IF rePc' = "item" THEN 1 ELSE 0)
       /\ wrPc' \in {"create", "streaming", "completed", "failed", "crashed", "closed"} =>
             wrGenCalls' = 1
       /\ wrPc' = "rejected" => wrGenCalls' = 0
       /\ (fault = "embed" /\ rePc = "idle") => (embedCalls' = embedCalls \/ RagIdle')
       /\ (rePc = "item" /\ ixPc = "embed" /\ embedCalls' > embedCalls) =>
             (embedCalls' = embedCalls + 1 /\ reIdx' = reIdx + 1 /\ Len(reLog') = Len(reLog) + 1)
       /\ (wrPc \in {"failed", "crashed"}) => (wrPc' = "idle" \/ wrGenCalls' = wrGenCalls)]_vars

\* a re_embed_all run over three rows is done: the embedding call of one row
\* failed, one row had blank text, and two embedding calls were issued in all
C24_Witness ==
    /\ rePc = "done"
    /\ Len(reLog) = 3
    /\ Cardinality({i \in 1 .. 3 : reLog[i].outcome = "embed_failed"}) = 1
    /\ Cardinality({i \in 1 .. 3 : Blank(ListedContent(i))}) = 1
    /\ embedCalls = 2

\* the generation call of a write request failed and was made once
WriteFailedOnce == wrPc = "failed" /\ wrFailure = "OpenAIError" /\ wrGenCalls = 1 /\ wrDelivered = <<>>

----------------------------------------------------------------------------
(* Order of a re_embed_all run (checked under Spec) *)

\* position of a collection in the run
CollectionRank(id) ==
    IF id % 4 = 0 THEN 3        \* certifications
    ELSE IF id % 4 = 3 THEN 2   \* posts
    ELSE 1                      \* projects

\* embedding calls of the run that have been answered
ReResolved ==
    Cardinality({i \in 1 .. Len(reLog) : ~Blank(ListedContent(i))})
        + (IF rePc = "item" /\ ixPc = "write" /\ ~Blank(ixContent) THEN 1 ELSE 0)

----------------------------------------------------------------------------
(* Re-running re_embed_all (checked under SpecReEmbed) *)

\* the embedding a deterministic provider gives the text of row id
ExpectedEmbedding(id) ==
    LET t == JoinColumns(RowColumns(id))
    IN IF Blank(t) THEN [dim |-> EMBEDDING_DIMENSIONS, dir |-> 0]
       ELSE [dim |-> EMBEDDING_DIMENSIONS, dir |-> ProviderDir(Strip(t))]

\* C26: with a deterministic provider and unchanged texts the stored
\* embeddings after a complete re_embed_all run are a function of the rows
\* alone: whether earlier runs crashed at any point or completed, every row
\* holds the embedding of its text after a run without failures, and at any
\* moment (after a crash too) a row holds that embedding or none.
C26_ReEmbedIdempotent ==
    /\ \A id \in Ids :
          (store[id].exists /\ store[id].embedding # <<>>) =>
              store[id].embedding = <<ExpectedEmbedding(id)>>
    /\ (rePc = "done" /\ reFixed /\ errors = 0) =>
          \A id \in Ids : store[id].exists => store[id].embedding = <<ExpectedEmbedding(id)>>

\* a run crashed, and since then two runs completed over the three rows, the
\* second without a failure
C26_Witness ==
    /\ rePc = "done"
    /\ reFixed
    /\ errors = 0
    /\ indexed = 3
    /\ rePast = [crashed |-> TRUE, runs |-> 2]
    /\ \A id \in 1 .. 3 : store[id].embedding = <<ExpectedEmbedding(id)>>

----------------------------------------------------------------------------
(* Failure and effect of index_text (checked under Spec) *)

\* a step of the index_text call in progress
IndexStep == ixPc \in {"embed", "write"} /\ (ixPc' # ixPc \/ reLog' # reLog)

\* the step ends the call with a failure
IndexFails ==
    /\ IndexStep
    /\ IF ixCaller = "direct" THEN ixPc' # "write" /\ ixPc' # "returned"
       ELSE Len(reLog') = Len(reLog) + 1 /\ reLog'[Len(reLog')].outcome # "indexed"

\* C27: when index_text fails, because its embedding call fails or because
\* its store write fails, the caller gets AIServiceError (re_embed_all, which
\* catches it, counts an error), nothing is committed in that step or in any
\* earlier step of the call, so the stored embedding of the target is what it
\* was before the call; after a failed embedding call index_text issues no
\* statement.
C27_IndexFailure ==
    [][/\ IndexFails =>
             /\ store' = store
             /\ ixCaller = "direct" => ixPc' = "raised_ai"
             /\ ixCaller = "re_embed_all" => (errors' = errors + 1 /\ indexed' = indexed)
             /\ (ixPc = "embed" /\ ixCaller = "direct") => dbCalls' = dbCalls
       /\ (IndexStep /\ ixPc = "embed") => store' = store
       /\ (ixPc = "idle" /\ ixPc' # "idle") => store' = store]_vars

\* the write of index_text failed at the store for a row without embedding:
\* the vector was there, the row still has none
C27_Witness ==
    /\ ixPc = "raised_ai"
    /\ ixCaller = "direct"
    /\ fault = "db"
    /\ Len(ixVec) = 1
    /\ ixVec[1].dim = EMBEDDING_DIMENSIONS
    /\ store[ixRowId].exists
    /\ TableOf(ixRowId) = ixTable
    /\ store[ixRowId].embedding = <<>>

\* the step ends the call with success
IndexSucceeds ==
    /\ IndexStep
    /\ ixPc = "write"
    /\ IF ixCaller = "direct" THEN ixPc' = "returned"
       ELSE Len(reLog') = Len(reLog) + 1 /\ reLog'[Len(reLog')].outcome = "indexed"

----------------------------------------------------------------------------
(* The end-of-stream sentinel (checked under SpecStream) *)

Sentinels(frames) == {i \in 1 .. Len(frames) : frames[i] = "data: [DONE]\n\n"}

\* C29: `data: [DONE]\n\n` is an unambiguous end-of-stream signal: whatever
\* deltas the provider sends, a stream that completed (or ended on the error
\* marker) has that frame exactly once, as its last frame, and the frame of a
\* content delta is never the sentinel frame nor an `event: error` frame.
C29_SentinelUnambiguous ==
    /\ wrPc \in {"completed", "failed"} =>
          Sentinels(wrFrames) = {Len(wrFrames)}
    /\ Generating =>
          \A i \in 1 .. Len(ContentDeltas(wrDelivered)) :
             /\ i <= Len(wrFrames)
             /\ wrFrames[i] # "data: [DONE]\n\n"
             /\ ~IsErrorFrame(wrFrames[i])

----------------------------------------------------------------------------
(* C30: request IDs in log records, in the response, and filter removal *)

\* the request_id of a request is the client's X-Request-ID when one was
\* sent, and a fresh UUID otherwise
IdChosen ==
    \A r \in Requests : rqPc[r] # "idle" =>
        /\ rqHeader[r] # "" => rqId[r] = rqHeader[r]
        /\ rqHeader[r] = "" =>
              /\ rqId[r] \in Uuids
              /\ \A q \in Requests \ {r} : rqPc[q] # "idle" => rqId[q] # rqId[r]

\* the response dispatch returns carries the request_id in X-Request-ID
IdEchoed == \A r \in Requests : rqPc[r] = "done" => rqEcho[r] = rqId[r]

\* the filter of a request is on the root logger exactly while it runs
FilterRemoved ==
    \A r \in Requests :
        (rqPc[r] = "running") <=> (\E i \in 1..Len(rootFilters) : rootFilters[i].owner = r)

\* a record logged within a request carries the ID of that request
RecordCarriesId ==
    lastRecord # NoRecord => lastRecord.request_id = rqId[lastRecord.request]

\* C30: under RequestIDMiddleware every log record emitted within a request
\* carries that request's ID, also while other requests are in progress; the
\* ID is the client's X-Request-ID or else a fresh UUID, it is echoed in the
\* response headers, and the filter is removed when the request ends.
C30_RequestIdOnEveryRecord ==
    /\ RecordCarriesId
    /\ IdChosen
    /\ IdEchoed
    /\ FilterRemoved

\* a record logged on the root logger while two requests run carries the ID
\* of the request whose filter was added last
RootRecordOfOtherRequest ==
    /\ lastRecord # NoRecord
    /\ lastRecord.logger = "root"
    /\ lastRecord.request_id # ""
    /\ lastRecord.request_id # rqId[lastRecord.request]

====
